---- MODULE Spec2Model ----
(***************************************************************************)
(* Model of the sensor plugin coordination engine of SensorTest:           *)
(* sensorapp/gpio_app.py (GPIOApp), sensorapp/pin_table.py,                *)
(* sensorapp/plugins_loader.py and the shipped plugins.                    *)
(*                                                                         *)
(* The application is one asyncio event loop.  Every action below is one   *)
(* step of one coroutine, from the suspension point it was waiting at to   *)
(* the next one (await asyncio.sleep, a blocked semaphore acquire, an      *)
(* awaited asyncio.to_thread, asyncio.wait_for), or one UI message         *)
(* handler.  Worker threads started by asyncio.to_thread run beside the    *)
(* loop; a worker cannot be cancelled, so it goes on after the coroutine   *)
(* that awaited it was cancelled or timed out.  Time is abstracted: a      *)
(* sleep or a timeout may elapse at any moment.                            *)
(***************************************************************************)
EXTENDS Integers, Sequences, FiniteSets, TLC

(***************************************************************************)
(* Bounds of the model.                                                    *)
(***************************************************************************)
\* scan_gpio iterates range(2, 28); the model iterates FirstPin..LastPin
LastPin == 5
\* scan_i2c iterates range(3, 0x78); the model iterates FirstAddr..LastAddr
LastAddr == 3
\* number of UI messages (button presses, row selections, select changes)
MaxEvents == 3
\* manual assignments already made when the poll scenario begins
MaxAssigned == 2
\* module names a plugin directory may hold, besides "base"
MaxMods == 2
\* plugins in a registry handed to build_plugin_options
MaxPlugins == 2
\* entries of a parsed pin description handed to build_table_rows
MaxEntries == 2

(***************************************************************************)
(* Program constants.                                                      *)
(***************************************************************************)
FirstPin == 2
FirstAddr == 3
W1Pin == 4
I2CRow == 2
LastPhys == 40

PIN_MAP ==
  ( 2 :> "I2C SDA" @@ 3 :> "I2C SCL" @@ 14 :> "UART TX" @@ 15 :> "UART RX" @@
    10 :> "SPI MOSI" @@ 9 :> "SPI MISO" @@ 11 :> "SPI SCLK" @@ 8 :> "SPI CE0" @@
    7 :> "SPI CE1" )

BUS_PINS == DOMAIN PIN_MAP

PHYS_TO_BCM ==
  ( 3 :> 2 @@ 5 :> 3 @@ 7 :> 4 @@ 8 :> 14 @@ 10 :> 15 @@ 11 :> 17 @@ 12 :> 18 @@
    13 :> 27 @@ 15 :> 22 @@ 16 :> 23 @@ 18 :> 24 @@ 19 :> 10 @@ 21 :> 9 @@
    22 :> 25 @@ 23 :> 11 @@ 24 :> 8 @@ 26 :> 7 @@ 29 :> 5 @@ 31 :> 6 @@
    32 :> 12 @@ 33 :> 13 @@ 35 :> 19 @@ 36 :> 16 @@ 37 :> 26 @@ 38 :> 20 @@
    40 :> 21 )

BCM_TO_PHYS ==
  [ bcm \in { PHYS_TO_BCM[phys] : phys \in DOMAIN PHYS_TO_BCM } |->
      CHOOSE phys \in DOMAIN PHYS_TO_BCM : PHYS_TO_BCM[phys] = bcm ]

(***************************************************************************)
(* The pin map as state: build_table_rows replaces self.BCM_TO_PHYS and    *)
(* fills the table from what get_system_pin_info parsed.                   *)
(***************************************************************************)
VARIABLES
  pins,               \* what get_system_pin_info returned: entries
                      \* [phys, bcm] sorted by phys, bcm = -1 for None
  bcm_to_phys,        \* self.BCM_TO_PHYS
  row_bcm,            \* column 1 (bcm_str) of the row pin_to_row keeps for a
                      \* physical pin, -1 for an empty cell
  disp                \* << bcm_pin, result >> of the last get_display_pin
                      \* call, << 0, 0 >> before any

pinmap == << pins, bcm_to_phys, row_bcm, disp >>

\* dict.get(key, default)
DictGet(d, key, default) == IF key \in DOMAIN d THEN d[key] ELSE default

get_display_pin_identity(bcm_pin) == bcm_pin

get_display_pin(bcm_pin) == DictGet(bcm_to_phys, bcm_pin, bcm_pin)

\* the last entry of pins whose field has the value
LastEntry(entries, field, value) ==
  entries[CHOOSE i \in 1 .. Len(entries) :
            /\ entries[i][field] = value
            /\ \A j \in 1 .. Len(entries) :
                  entries[j][field] = value => j <= i]

BcmMapOf_first(entries) ==
  [ bcm \in { entries[i].bcm : i \in 1 .. Len(entries) } \ { -1 } |->
      entries[1].phys ]

\* lines 158-162: self.BCM_TO_PHYS[bcm_v] = entry["phys"] for every entry
\* with a bcm, a later entry replacing an earlier one of the same bcm
BcmMapOf(entries) ==
  [ bcm \in { entries[i].bcm : i \in 1 .. Len(entries) } \ { -1 } |->
      LastEntry(entries, "bcm", bcm).phys ]

\* lines 163-189: one row per entry, pin_to_row[phys] keeping the last
RowsOf(entries) ==
  [ phys \in { entries[i].phys : i \in 1 .. Len(entries) } |->
      LastEntry(entries, "phys", phys).bcm ]

\* lines 146-189: the map and the rows after build_table_rows; without pin
\* info (lines 152-157) the map is left as it was and the forty rows have an
\* empty bcm cell
build_table_rows(map, entries) ==
  IF entries = << >>
  THEN [ BCM_TO_PHYS |-> map, rows |-> [ phys \in 1 .. LastPhys |-> -1 ] ]
  ELSE [ BCM_TO_PHYS |-> BcmMapOf(entries), rows |-> RowsOf(entries) ]

\* the logical pins the model follows, and the table rows it keeps: the row of
\* each such pin, the rows whose physical number equals such a pin's logical
\* number, the row scan_i2c writes, and one power row (physical pin 1)
ScanRange == FirstPin .. LastPin

Rows ==
  {1, I2CRow} \cup ScanRange \cup { DictGet(BCM_TO_PHYS, p, p) : p \in ScanRange }

\* the rows the model lets the user select: the power row and the rows of the
\* pins of ScanRange
SelectableRows == {1} \cup { DictGet(BCM_TO_PHYS, p, p) : p \in ScanRange }

\* the description pinout gives for the 40-pin header of the static table,
\* cut down to the rows the model keeps
StandardPins ==
  LET kept == SelectSeq([ phys \in 1 .. LastPhys |-> phys ],
                        LAMBDA phys : phys \in Rows)
  IN [ i \in 1 .. Len(kept) |->
         [ phys |-> kept[i], bcm |-> DictGet(PHYS_TO_BCM, kept[i], -1) ] ]

\* the pin map of the application on such a board
PinMapStandard ==
  /\ pins = StandardPins
  /\ bcm_to_phys = build_table_rows(BCM_TO_PHYS, StandardPins).BCM_TO_PHYS
  /\ row_bcm = build_table_rows(BCM_TO_PHYS, StandardPins).rows
  /\ disp = << 0, 0 >>

RowBcm_static(row) == DictGet(PHYS_TO_BCM, row, -1)

\* column 1 of a row (bcm_str), as a number; -1 stands for a row whose BCM
\* cell is empty (bcm_pin = None)
RowBcm(row) == DictGet(row_bcm, row, -1)

(***************************************************************************)
(* Python dicts keep insertion order: a dict is a sequence of <<key,value>>.*)
(***************************************************************************)
Has(d, k) == \E i \in 1 .. Len(d) : d[i][1] = k

Get(d, k) == d[CHOOSE i \in 1 .. Len(d) : d[i][1] = k][2]

Put(d, k, v) ==
  IF Has(d, k)
  THEN [ i \in 1 .. Len(d) |-> IF d[i][1] = k THEN <<k, v>> ELSE d[i] ]
  ELSE Append(d, <<k, v>>)

\* the items of d as a set
Range(d) == { d[i] : i \in 1 .. Len(d) }

Keys(d) == { d[i][1] : i \in 1 .. Len(d) }

(***************************************************************************)
(* The plugin registry: load_gpio_plugins over the shipped plugins         *)
(* directory.  pkgutil.iter_modules yields the modules sorted by name      *)
(* (bmp280, button, dht22, ds18b20, lm393, pir_hcsr501, template, tm1637;  *)
(* base is skipped), so this is the registration order.  auto_detectable   *)
(* is getattr(plugin, "auto_detectable", False).                           *)
(***************************************************************************)
gpio_plugins ==
  << [name |-> "BMP280",       auto_detectable |-> FALSE, pin_roles |-> << >>],
     [name |-> "Button",       auto_detectable |-> FALSE, pin_roles |-> <<"DATA">>],
     [name |-> "DHT22",        auto_detectable |-> TRUE,  pin_roles |-> << >>],
     [name |-> "DS18B20",      auto_detectable |-> TRUE,  pin_roles |-> <<"DATA">>],
     [name |-> "LM393",        auto_detectable |-> FALSE, pin_roles |-> <<"DATA">>],
     [name |-> "PIR HC-SR501", auto_detectable |-> FALSE, pin_roles |-> <<"DATA">>],
     [name |-> "MySensor",     auto_detectable |-> FALSE, pin_roles |-> <<"DATA">>],
     [name |-> "TM1637",       auto_detectable |-> FALSE, pin_roles |-> <<"CLK", "DIO">>] >>

PluginNames == { gpio_plugins[i].name : i \in 1 .. Len(gpio_plugins) }

\* self.gpio_plugins.get(sensor): the registry index of a name, 0 for None
PluginIndex(sensor) ==
  IF sensor \in PluginNames
  THEN CHOOSE i \in 1 .. Len(gpio_plugins) : gpio_plugins[i].name = sensor
  ELSE 0

\* variant of NextAuto that passes over no plugin
NextAuto_any(i) == IF i <= Len(gpio_plugins) THEN i ELSE 0

\* the next plugin of "for name, plugin in self.gpio_plugins.items()" at or
\* after index i that passes "if not getattr(plugin, 'auto_detectable', False):
\* continue"; 0 when the loop is exhausted
NextAuto(i) ==
  LET S == { j \in i .. Len(gpio_plugins) : gpio_plugins[j].auto_detectable }
  IN IF S = {} THEN 0 ELSE CHOOSE j \in S : \A k \in S : j <= k

\* build_plugin_options: the values of the select widget
RoleOptions_bare(name, roles) == << name >>

RECURSIVE RoleOptions(_, _)
\* lines 110-112: one label "name:role" per element of roles
RoleOptions(name, roles) ==
  IF roles = << >> THEN << >>
  ELSE << name \o ":" \o Head(roles) >> \o RoleOptions(name, Tail(roles))

\* sorted(plugins.keys()): Python orders the names by code point; LexOrder
\* lists the names of the model (the shipped ones and those of CatalogNames)
\* in that order and sorted() keeps those present
LexOrder ==
  << "BMP280", "Bar", "Button", "DHT22", "DS18B20", "Foo", "Foo:CLK", "LM393",
     "MySensor", "PIR HC-SR501", "TM1637" >>

SortedNames(S) == SelectSeq(LexOrder, LAMBDA n : n \in S)

RECURSIVE OptionsOf(_, _)
\* lines 106-114; a registry is the sequence of its plugins in dict order,
\* pin_roles being << >> when the attribute is absent, None or empty
OptionsOf(plugins, names) ==
  IF names = << >> THEN << >>
  ELSE LET plugin ==
             plugins[CHOOSE i \in 1 .. Len(plugins) :
                       plugins[i].name = Head(names)]
       IN (IF plugin.pin_roles # << >>
           THEN RoleOptions(plugin.name, plugin.pin_roles)
           ELSE << plugin.name >>) \o OptionsOf(plugins, Tail(names))

build_plugin_options(plugins) ==
  OptionsOf(plugins,
            SortedNames({ plugins[i].name : i \in 1 .. Len(plugins) }))
  \o << "I2C" >>

(***************************************************************************)
(* load_gpio_plugins (plugins_loader.py 44-95) as a function of what is on *)
(* disk.  A directory is [id, exists, mods], mods being its module files   *)
(* in the order pkgutil.iter_modules yields them (sorted by name).  A      *)
(* module file is [mod, dir, loads, partial, factory, name]: its module    *)
(* name, the directory it lies in, whether it can be imported (or loaded   *)
(* by the fallback), whether a failed load gets as far as executing it,    *)
(* what getattr(module, "get_plugin", None) is ("none": absent or not      *)
(* callable, "raises": callable but raising, "callable") and the name      *)
(* attribute of the instance the factory returns ("" for empty/None).      *)
(***************************************************************************)
NoModule ==
  [ mod |-> "", dir |-> "", loads |-> FALSE, partial |-> FALSE,
    factory |-> "none", name |-> "" ]

\* lines 34-35: the fallback enters the module into sys.modules before it
\* executes it, so a module whose body raises (before get_plugin is defined)
\* stays there as an empty module
Partial(file) == [ file EXCEPT !.factory = "none", !.name = "" ]

\* the driver a module's factory produces, identified by its source file
Instance(module) == module.dir \o "/" \o module.mod

\* lines 54-58: the override directory, if SENSOR_PLUGINS_DIR is set (id # ""),
\* then the two built-in ones
candidate_dirs(fs) ==
  IF fs.override.id # ""
  THEN << fs.override, fs.plugins, fs.Plugins >>
  ELSE << fs.plugins, fs.Plugins >>

\* lines 72-79: importlib.import_module(mod_name) returns the module that
\* sys.modules already holds under this name, whatever directory it was
\* loaded from; otherwise the file of the directory being scanned (which is
\* sys.path[0], line 66) is loaded and cached
import_module(cache, file) ==
  IF Has(cache, file.mod)
  THEN [ module |-> Get(cache, file.mod), cache |-> cache ]
  ELSE IF file.loads
       THEN [ module |-> file, cache |-> Put(cache, file.mod, file) ]
       ELSE IF file.partial
            THEN [ module |-> NoModule,
                   cache |-> Put(cache, file.mod, Partial(file)) ]
            ELSE [ module |-> NoModule, cache |-> cache ]

\* lines 68-92: one iteration of the loop over the modules of a directory;
\* st is [plugins, cache, registered], registered being the instances that
\* line 88 has stored so far
load_module(st, file) ==
  IF file.mod \in { "__init__", "base" }
  THEN st
  ELSE LET r == import_module(st.cache, file)
           module == r.module
       IN IF \/ module = NoModule
             \/ module.factory # "callable"
             \/ module.name = ""
          THEN [ st EXCEPT !.cache = r.cache ]
          ELSE [ plugins |-> Put(st.plugins, module.name, Instance(module)),
                 cache |-> r.cache,
                 registered |-> st.registered \cup { Instance(module) } ]

RECURSIVE load_dir(_, _, _)
\* lines 67-92: the modules of one directory from index i on
load_dir(st, mods, i) ==
  IF i > Len(mods) THEN st
  ELSE load_dir(load_module(st, mods[i]), mods, i + 1)

RECURSIVE load_dirs(_, _, _)
\* lines 62-92: the candidate directories from index k on
load_dirs(st, dirs, k) ==
  IF k > Len(dirs) THEN st
  ELSE IF ~dirs[k].exists
       THEN load_dirs(st, dirs, k + 1)
       ELSE load_dirs(load_dir(st, dirs[k].mods, 1), dirs, k + 1)

load_gpio_plugins(fs) ==
  load_dirs([ plugins |-> << >>, cache |-> << >>, registered |-> {} ],
            candidate_dirs(fs), 1)

(***************************************************************************)
(* Directory contents for the loader: up to MaxMods module files plus      *)
(* base.py per directory, each of one kind.                                *)
(***************************************************************************)
ModOrder == << "a", "b", "base", "c", "d" >>

ModNames ==
  { "base" } \cup { << "a", "b", "c", "d" >>[i] : i \in 1 .. MaxMods }

\* "broken": a syntax error, neither import nor the fallback compiles it;
\* "crashes": the module body raises when executed
Kinds == { "broken", "crashes", "nofactory", "raises", "noname", "plugin" }

File(mod, kind, dir) ==
  [ mod |-> mod, dir |-> dir, loads |-> kind \notin { "broken", "crashes" },
    partial |-> kind = "crashes",
    factory |-> CASE kind \in { "noname", "plugin" } -> "callable"
                  [] kind = "raises" -> "raises"
                  [] OTHER -> "none",
    name |-> IF kind = "plugin" THEN "Foo" ELSE "" ]

Contents ==
  { f \in [ ModNames -> Kinds \cup { "absent" } ] :
      f["base"] \in { "absent", "plugin" } }

\* the files of a directory in iter_modules order
FilesOf(f, dir) ==
  LET Present(m) == m \in ModNames /\ f[m] # "absent"
      names == SelectSeq(ModOrder, Present)
  IN [ i \in 1 .. Len(names) |-> File(names[i], f[names[i]], dir) ]

MissingDir(id) == [ id |-> id, exists |-> FALSE, mods |-> << >> ]

\* The state keeps a directory as [state, files]: "missing", "exists" with
\* the kind of each module file, or (the override only) "unset"
NoFiles == [ m \in ModNames |-> "absent" ]

Directories ==
  { [ state |-> "missing", files |-> NoFiles ] }
  \cup { [ state |-> "exists", files |-> f ] : f \in Contents }

\* what SENSOR_PLUGINS_DIR may be: unset, or a directory
Overrides == Directories \cup { [ state |-> "unset", files |-> NoFiles ] }

\* the directory with its module files
Directory(id, d) ==
  IF d.state = "exists"
  THEN [ id |-> id, exists |-> TRUE, mods |-> FilesOf(d.files, id) ]
  ELSE MissingDir(IF d.state = "unset" THEN "" ELSE id)

\* the override directory (or none), plugins/, and Plugins/, which is either
\* missing or, on a case-insensitive file system, plugins/ under another name
Disk(o, p, alias) ==
  [ override |-> o, plugins |-> p,
    Plugins |-> IF alias THEN [ p EXCEPT !.id = "Plugins" ]
                ELSE MissingDir("Plugins") ]

\* the repository as shipped: no override, src/plugins with its nine modules
ShippedDisk ==
  LET P(mod, name) == [ File(mod, "plugin", "plugins") EXCEPT !.name = name ]
  IN [ override |-> MissingDir(""),
       plugins |->
         [ id |-> "plugins", exists |-> TRUE,
           mods |-> << File("base", "nofactory", "plugins"),
                       P("bmp280", "BMP280"), P("button", "Button"),
                       P("dht22", "DHT22"), P("ds18b20", "DS18B20"),
                       P("lm393", "LM393"), P("pir_hcsr501", "PIR HC-SR501"),
                       P("template", "MySensor"), P("tm1637", "TM1637") >> ],
       Plugins |-> MissingDir("Plugins") ]

\* The state keeps the file system as [shipped, override, plugins, alias]:
\* the repository as shipped, or the given override and plugins directories
\* with Plugins an alias of plugins or missing
ShippedLayout ==
  [ shipped |-> TRUE,
    override |-> [ state |-> "unset", files |-> NoFiles ],
    plugins |-> [ state |-> "exists", files |-> NoFiles ],
    alias |-> FALSE ]

DiskOf(layout) ==
  IF layout.shipped THEN ShippedDisk
  ELSE Disk(Directory("override", layout.override),
            Directory("plugins", layout.plugins), layout.alias)


(***************************************************************************)
(* State.                                                                  *)
(***************************************************************************)
VARIABLES
  phase,              \* "compose" | "ready" | "mounted" | "unmounted"
  HAS_ADAFRUIT,       \* dht22.py: import Adafruit_DHT succeeded
  HAS_SMBUS,          \* gpio_app.py / bmp280.py: import smbus succeeded
  gpio_sem,           \* value of asyncio.Semaphore(1): 1 free, 0 taken
  fixed_pin_sensors,  \* dict bcm pin -> selected value (insertion ordered)
  last_row_key,       \* physical number of the last selected row, 0 for None
  table,              \* per row: the Sensor and Info cells of PinTable
  gpio_task,          \* self.gpio_task: a scan_gpio or scan_pin task
  i2c_task,           \* self.i2c_task
  sensor_poll_task,   \* self.sensor_poll_task
  details_task,       \* the _show_row_details call of the row handler
  orphans,            \* live tasks no attribute refers to any more
  lost_threads,       \* to_thread workers whose awaiting call was abandoned
  events,             \* number of UI messages handled so far
  disk,               \* the plugin directories load_gpio_plugins finds
  registry,           \* the dict load_gpio_plugins returned
  registered,         \* the instances line 88 of the loader has stored
  catalog_plugins,    \* the registry handed to build_plugin_options, as
                      \* [shipped, plugins]: the shipped one, or the given
                      \* sequence of plugins in dict order
  opts,               \* the options build_plugin_options returned
  fault               \* << kind, pin, plugin >> of the last detect call of a
                      \* scan that raised, as far as it is observed

vars ==
  << phase, HAS_ADAFRUIT, HAS_SMBUS, gpio_sem, fixed_pin_sensors, last_row_key,
     table, gpio_task, i2c_task, sensor_poll_task, details_task, orphans,
     lost_threads, events, disk, registry, registered, catalog_plugins, opts,
     pins, bcm_to_phys, row_bcm, disp, fault >>

\* no detect call was seen to raise
NoFault == << "none", 0, "" >>

\* what no task and no handler of the application changes: the import flags,
\* the plugin directories, the registry built in GPIOApp.__init__ and the
\* options of the select widget
env ==
  << HAS_ADAFRUIT, HAS_SMBUS, disk, registry, registered, catalog_plugins,
     opts, pinmap, fault >>

(***************************************************************************)
(* Tasks.  A task is a record:                                             *)
(*   kind       "scan_gpio" | "scan_pin" | "scan_i2c" | "poll" | "details" *)
(*   pc         the suspension point it waits at; "start" before its first *)
(*              step, "done" once the coroutine has returned               *)
(*   cancelled  task.cancel() was called (for a done task: it ended by     *)
(*              cancellation)                                              *)
(*   pin        the pin (scan_i2c: the address) being worked on            *)
(*   idx        scans: registry index of the plugin being tried;           *)
(*              poll: index into items                                     *)
(*   items      poll: list(self.fixed_pin_sensors.items()) of this pass    *)
(*   held       the task is inside its own "async with self.gpio_sem"      *)
(*   call       the plugin coroutine it awaits: "none", "semwait" (blocked *)
(*              in "async with ctx.gpio_sem") or "thread" (awaiting        *)
(*              asyncio.to_thread)                                         *)
(*   plock      the plugin coroutine is inside "async with ctx.gpio_sem"   *)
(*   dev        the hardware the worker thread accesses ("none": no        *)
(*              hardware access)                                           *)
(*   hits       scan_gpio: the <<pin, plugin>> detections of this scan     *)
(***************************************************************************)
Task(kind, pin) ==
  [ kind |-> kind, pc |-> "start", cancelled |-> FALSE, pin |-> pin, idx |-> 0,
    items |-> << >>, held |-> FALSE, call |-> "none", plock |-> FALSE,
    dev |-> "none", hits |-> {}, unread |-> {} ]

\* None
NoTask == [ Task("none", 0) EXCEPT !.pc = "done" ]

\* "task and not task.done()"
Live(t) == t.kind # "none" /\ t.pc # "done"

\* the coroutine returned
Finished(t) == [ NoTask EXCEPT !.kind = t.kind, !.hits = t.hits ]

\* the coroutine ended on CancelledError
EndedCancelled(t) ==
  [ NoTask EXCEPT !.kind = t.kind, !.cancelled = TRUE, !.hits = t.hits ]

\* task.cancel()
Cancel(t) == [ t EXCEPT !.cancelled = TRUE ]

\* the task outside any plugin call and any "async with"
Plain(t) ==
  [ t EXCEPT !.idx = 0, !.held = FALSE, !.call = "none", !.plock = FALSE,
             !.dev = "none" ]

\* variant of SemAfter for a task that leaves without releasing
SemAfter_kept(t, s) == s

\* leaving the "async with" blocks of t (normally or by an exception)
SemAfter(t, s) == IF t.held \/ t.plock THEN 1 ELSE s

\* the worker thread of an abandoned await keeps running
LostAfter(t, lost) ==
  IF t.call = "thread" /\ t.dev # "none" THEN lost \cup {t.dev} ELSE lost

(***************************************************************************)
(* PinTable.update_sensor and the two helpers of GPIOApp.                  *)
(***************************************************************************)
update_sensor(tbl, pin_display, sensor_type, info) ==
  IF pin_display \in DOMAIN tbl
  THEN [ tbl EXCEPT ![pin_display] = [sensor |-> sensor_type, info |-> info] ]
  ELSE tbl

set_scan_marker(tbl, bcm_pin, text) ==
  update_sensor(tbl, get_display_pin(bcm_pin), text, "")

set_sensor_result(tbl, bcm_pin, sensor_type, info) ==
  update_sensor(tbl, get_display_pin(bcm_pin), sensor_type, info)

(***************************************************************************)
(* Plugin calls.  PluginCall is the part of detect/read that runs before   *)
(* the coroutine first suspends: call = "none" means it returned None      *)
(* without suspending.  s is the semaphore value, w1 whether               *)
(* /sys/bus/w1/devices lists a 28-* device.  Only DHT22 and DS18B20 are    *)
(* auto-detectable, and only "DHT22" and "BMP280" are both a select value  *)
(* and a registry key, so no other plugin's detect or read is ever called. *)
(***************************************************************************)
Returned(s) == [ call |-> "none", plock |-> FALSE, dev |-> "none", sem |-> s ]

PluginCall(name, op, pin, s, w1) ==
  CASE name = "DHT22" ->
         IF ~HAS_ADAFRUIT THEN Returned(s)
         ELSE IF s = 1
              THEN [ call |-> "thread", plock |-> TRUE, dev |-> "dht", sem |-> 0 ]
              ELSE [ call |-> "semwait", plock |-> FALSE, dev |-> "none", sem |-> s ]
    [] name = "DS18B20" ->
         IF (op = "detect" /\ pin # W1Pin) \/ ~w1 THEN Returned(s)
         ELSE [ call |-> "thread", plock |-> FALSE, dev |-> "w1", sem |-> s ]
    [] name = "BMP280" ->
         [ call |-> "thread", plock |-> FALSE,
           dev |-> IF HAS_SMBUS THEN "smbus" ELSE "none", sem |-> s ]
    [] OTHER -> Returned(s)

\* the info string of a successful detect/read (a formatted measurement)
Reading(name) ==
  CASE name = "DHT22" -> "T/H"
    [] name = "DS18B20" -> "T"
    [] OTHER -> "T/P"

\* f"{addr:02X}"
HexDigit(n) ==
  << "0", "1", "2", "3", "4", "5", "6", "7", "8", "9", "A", "B", "C", "D", "E",
     "F" >>[n + 1]

Hex2(n) == HexDigit((n \div 16) % 16) \o HexDigit(n % 16)

(***************************************************************************)
(* scan_gpio (gpio_app.py 418-443).                                        *)
(***************************************************************************)
\* variant of gpio_next_pin without the test of line 427
gpio_next_pin_ignoring_assignments(t, p, tbl, s) ==
  LET C == { q \in p .. LastPin : q \notin BUS_PINS }
  IN IF C = {}
     THEN [ t |-> Finished(t), table |-> tbl, sem |-> s ]
     ELSE [ t |-> [ Plain(t) EXCEPT !.pc = "sleep",
                                    !.pin = CHOOSE q \in C : \A r \in C : q <= r ],
            table |-> tbl, sem |-> s ]

\* variant of gpio_next_pin without the test of line 426
gpio_next_pin_ignoring_bus_pins(t, p, tbl, s) ==
  LET C == { q \in p .. LastPin : ~Has(fixed_pin_sensors, q) }
  IN IF C = {}
     THEN [ t |-> Finished(t), table |-> tbl, sem |-> s ]
     ELSE [ t |-> [ Plain(t) EXCEPT !.pc = "sleep",
                                    !.pin = CHOOSE q \in C : \A r \in C : q <= r ],
            table |-> tbl, sem |-> s ]

\* variant of gpio_next_pin that begins the range again after every pin
gpio_next_pin_from_first(t, p, tbl, s) ==
  LET C == { q \in FirstPin .. LastPin :
               q \notin BUS_PINS /\ ~Has(fixed_pin_sensors, q) }
  IN IF C = {}
     THEN [ t |-> Finished(t), table |-> tbl, sem |-> s ]
     ELSE [ t |-> [ Plain(t) EXCEPT !.pc = "sleep",
                                    !.pin = CHOOSE q \in C : \A r \in C : q <= r ],
            table |-> tbl, sem |-> s ]

\* "for pin in range(2,28)" from pin p on, past the two "continue" tests, up
\* to "await asyncio.sleep(SCAN_PIN_DELAY)"; the loop's end when no pin is left
gpio_next_pin(t, p, tbl, s) ==
  LET C == { q \in p .. LastPin :
               q \notin BUS_PINS /\ ~Has(fixed_pin_sensors, q) }
  IN IF C = {}
     THEN [ t |-> Finished(t), table |-> tbl, sem |-> s ]
     ELSE [ t |-> [ Plain(t) EXCEPT !.pc = "sleep",
                                    !.pin = CHOOSE q \in C : \A r \in C : q <= r ],
            table |-> tbl, sem |-> s ]

\* variant of gpio_detected that also records the detection as an assignment,
\* whatever the store holds for the pin
gpio_detected_overwriting(t, tbl, name) ==
  [ t |-> [ t EXCEPT !.hits = @ \cup { <<t.pin, name>> } ],
    table |-> set_sensor_result(tbl, t.pin, name, Reading(name)),
    fixed |-> Put(fixed_pin_sensors, t.pin, name) ]

\* lines 435-436: what scan_gpio does with a truthy detect result
gpio_detected(t, tbl, name) ==
  [ t |-> [ t EXCEPT !.hits = @ \cup { <<t.pin, name>> } ],
    table |-> set_sensor_result(tbl, t.pin, name, Reading(name)),
    fixed |-> fixed_pin_sensors ]

\* variant of no_match that leaves the row as the plugin loop left it
no_match_unmarked(tbl, bcm_pin) == tbl

\* line 440: "if not found_any: self._set_scan_marker(pin, "-", color="red")"
no_match(tbl, bcm_pin) == set_scan_marker(tbl, bcm_pin, "-")

RECURSIVE gpio_try(_, _, _, _, _)
RECURSIVE gpio_enter(_, _, _, _)

\* lines 433-434 once the semaphore is taken: the detect call of plugin j
gpio_enter(t, j, tbl, w1) ==
  LET c == PluginCall(gpio_plugins[j].name, "detect", t.pin, 0, w1)
  IN IF c.call = "none"
     THEN gpio_try(t, j + 1, tbl, 1, w1)
     ELSE [ t |-> [ t EXCEPT !.pc = "detect", !.idx = j, !.held = TRUE,
                             !.call = c.call, !.plock = c.plock, !.dev = c.dev ],
            table |-> tbl, sem |-> c.sem ]

\* lines 429-440: the plugin loop of the current pin from registry index i on,
\* until the coroutine suspends; after the loop, the "-" marker and the next pin
gpio_try(t, i, tbl, s, w1) ==
  LET j == NextAuto(i)
  IN IF j = 0
     THEN gpio_next_pin(t, t.pin + 1, no_match(tbl, t.pin), s)
     ELSE LET marked ==
                set_scan_marker(tbl, t.pin, "Scan " \o gpio_plugins[j].name)
          IN IF s = 0
             THEN [ t |-> [ Plain(t) EXCEPT !.pc = "acquire", !.idx = j ],
                    table |-> marked, sem |-> s ]
             ELSE gpio_enter(t, j, marked, w1)

\* variant of detect_failed in which the fault ends the scan
detect_failed_ending_scan(t, i, tbl, s, w1) ==
  [ t |-> Finished(t), table |-> tbl, sem |-> s ]

\* line 439, "except Exception: continue" (and a detect that returns None,
\* which fails "if res:"): the for loop goes on with the plugin after plugin i
detect_failed(t, i, tbl, s, w1) == gpio_try(t, i + 1, tbl, s, w1)

\* variant of pause_poll that leaves the poll loop running
pause_poll_skipped(poll) == [ handle |-> poll, orphan |-> {} ]

\* line 424 without the cancel(): the handle is dropped, the task runs on
pause_poll_dropping(poll) ==
  IF Live(poll)
  THEN [ handle |-> NoTask, orphan |-> { poll } ]
  ELSE [ handle |-> poll, orphan |-> {} ]

\* line 424: "if self.sensor_poll_task and not self.sensor_poll_task.done():
\* self.sensor_poll_task.cancel(); self.sensor_poll_task = None"
pause_poll(poll) ==
  IF Live(poll)
  THEN [ handle |-> NoTask, orphan |-> { Cancel(poll) } ]
  ELSE [ handle |-> poll, orphan |-> {} ]

\* line 443 (and on_mount, line 139-140): "if self.sensor_poll_task is None or
\* self.sensor_poll_task.done(): self.sensor_poll_task = asyncio.create_task(...)"
restart_poll(poll) == IF ~Live(poll) THEN Task("poll", 0) ELSE poll

(***************************************************************************)
(* scan_pin (gpio_app.py 355-366).                                         *)
(***************************************************************************)
RECURSIVE pin_try(_, _, _, _, _)
pin_try(t, i, tbl, s, w1) ==
  LET j == NextAuto(i)
  IN IF j = 0
     THEN [ t |-> Finished(t), table |-> set_scan_marker(tbl, t.pin, "-"),
            sem |-> s ]
     ELSE LET name == gpio_plugins[j].name
              marked == set_scan_marker(tbl, t.pin, "Scan " \o name)
              c == PluginCall(name, "detect", t.pin, s, w1)
          IN IF c.call = "none"
             THEN pin_try(t, j + 1, marked, s, w1)
             ELSE [ t |-> [ t EXCEPT !.pc = "detect", !.idx = j,
                                     !.call = c.call, !.plock = c.plock,
                                     !.dev = c.dev ],
                    table |-> marked, sem |-> c.sem ]

\* line 365, "except Exception: continue" (and a detect that returns None)
pin_detect_failed(t, i, tbl, s, w1) == pin_try(t, i + 1, tbl, s, w1)

(***************************************************************************)
(* poll_sensors_periodically (gpio_app.py 368-388).                        *)
(***************************************************************************)
RECURSIVE poll_items(_, _, _, _, _)
\* lines 374-384: the items of this pass from index i on, until the coroutine
\* suspends in a read or reaches the sleeps of lines 384-387
poll_items(t, i, tbl, s, w1) ==
  IF i > Len(t.items)
  THEN [ t |-> [ Plain(t) EXCEPT !.pc = "sleep", !.pin = 0, !.items = << >> ],
         table |-> tbl, sem |-> s ]
  ELSE LET pin == t.items[i][1]
           sensor == t.items[i][2]
           seen == [ t EXCEPT !.unread = @ \ { t.items[i] } ]
       IN IF PluginIndex(sensor) # 0
          THEN LET c == PluginCall(sensor, "read", pin, s, w1)
               IN IF c.call = "none"
                  THEN poll_items(seen, i + 1, tbl, s, w1)
                  ELSE [ t |-> [ seen EXCEPT !.pc = "read", !.pin = pin,
                                             !.idx = i, !.call = c.call,
                                             !.plock = c.plock, !.dev = c.dev ],
                         table |-> tbl, sem |-> c.sem ]
          ELSE IF sensor = "I2C"
               THEN poll_items(seen, i + 1,
                               update_sensor(tbl, pin, "I2C", "active"), s, w1)
               ELSE poll_items(t, i + 1, tbl, s, w1)

\* variant of read_failed in which a failing read ends the pass
read_failed_ending_pass(t, i, tbl, s, w1) ==
  poll_items(t, Len(t.items) + 1, tbl, s, w1)

\* line 383, "except Exception: pass" (and a read that returns None): the for
\* loop goes on with the item after item i
read_failed(t, i, tbl, s, w1) == poll_items(t, i + 1, tbl, s, w1)

(***************************************************************************)
(* Initial state: GPIOApp.__init__ and compose() have run; build_table_rows*)
(* has filled the table from the pin description and refresh_gpio_states   *)
(* has created the _do_refresh task.                                       *)
(***************************************************************************)
Init ==
  /\ PinMapStandard
  /\ fault = NoFault
  /\ phase = "compose"
  /\ HAS_ADAFRUIT \in BOOLEAN
  /\ HAS_SMBUS \in BOOLEAN
  /\ gpio_sem = 1
  /\ fixed_pin_sensors = << >>
  /\ last_row_key = 0
  /\ table = [ row \in Rows |-> [sensor |-> "-", info |-> ""] ]
  /\ gpio_task = NoTask
  /\ i2c_task = NoTask
  /\ sensor_poll_task = NoTask
  /\ details_task = NoTask
  /\ orphans = {}
  /\ lost_threads = {}
  /\ events = 0
  /\ disk = ShippedLayout
  /\ registry = load_gpio_plugins(ShippedDisk).plugins
  /\ registered = load_gpio_plugins(ShippedDisk).registered
  /\ catalog_plugins = [ shipped |-> TRUE, plugins |-> << >> ]
  /\ opts = build_plugin_options(gpio_plugins)

(***************************************************************************)
(* load_gpio_plugins applied to every bounded disk: the state before        *)
(* GPIOApp.__init__ reaches line 68 and the call of the loader.            *)
(***************************************************************************)
LoaderInit ==
  /\ PinMapStandard
  /\ fault = NoFault
  /\ phase = "init"
  /\ HAS_ADAFRUIT = TRUE
  /\ HAS_SMBUS = TRUE
  /\ gpio_sem = 1
  /\ fixed_pin_sensors = << >>
  /\ last_row_key = 0
  /\ table = [ row \in Rows |-> [sensor |-> "-", info |-> ""] ]
  /\ gpio_task = NoTask
  /\ i2c_task = NoTask
  /\ sensor_poll_task = NoTask
  /\ details_task = NoTask
  /\ orphans = {}
  /\ lost_threads = {}
  /\ events = 0
  /\ \E o \in Overrides, p \in Directories, alias \in BOOLEAN :
       disk = [ shipped |-> FALSE, override |-> o, plugins |-> p,
                alias |-> alias ]
  /\ registry = << >>
  /\ registered = {}
  /\ catalog_plugins = [ shipped |-> FALSE, plugins |-> << >> ]
  /\ opts = << >>

\* gpio_app.py line 68: self.gpio_plugins = load_gpio_plugins()
LoadPlugins ==
  /\ phase = "init"
  /\ phase' = "compose"
  /\ LET st == load_gpio_plugins(DiskOf(disk))
     IN /\ registry' = st.plugins
        /\ registered' = st.registered
  /\ UNCHANGED << HAS_ADAFRUIT, HAS_SMBUS, disk, gpio_sem, fixed_pin_sensors,
                  last_row_key, table, gpio_task, i2c_task, sensor_poll_task,
                  details_task, orphans, lost_threads, events,
                  catalog_plugins, opts, pinmap, fault >>

LoaderNext == LoadPlugins

LoaderSpec == LoaderInit /\ [][LoaderNext]_vars

(***************************************************************************)
(* build_plugin_options applied to bounded registries: up to MaxPlugins    *)
(* plugins in any dict order, named from CatalogNames, each with one of    *)
(* the role lists of RoleLists.                                            *)
(***************************************************************************)
CatalogNames == { "Bar", "Foo", "Foo:CLK" }

RoleLists == { << >>, << "CLK" >>, << "CLK", "DIO" >>, << "CLK", "CLK" >> }

Registries ==
  UNION { { r \in [ 1 .. n -> [ name : CatalogNames,
                                auto_detectable : BOOLEAN,
                                pin_roles : RoleLists ] ] :
              \A i, j \in 1 .. n : r[i].name = r[j].name => i = j } :
          n \in 0 .. MaxPlugins }

\* self.gpio_plugins as build_plugin_options receives it
CatalogPlugins ==
  IF catalog_plugins.shipped THEN gpio_plugins ELSE catalog_plugins.plugins

\* the state when compose reaches line 98, for any registry
CatalogInit ==
  /\ PinMapStandard
  /\ fault = NoFault
  /\ phase = "compose"
  /\ HAS_ADAFRUIT = TRUE
  /\ HAS_SMBUS = TRUE
  /\ gpio_sem = 1
  /\ fixed_pin_sensors = << >>
  /\ last_row_key = 0
  /\ table = [ row \in Rows |-> [sensor |-> "-", info |-> ""] ]
  /\ gpio_task = NoTask
  /\ i2c_task = NoTask
  /\ sensor_poll_task = NoTask
  /\ details_task = NoTask
  /\ orphans = {}
  /\ lost_threads = {}
  /\ events = 0
  /\ disk = ShippedLayout
  /\ registry = << >>
  /\ registered = {}
  /\ \E r \in Registries :
       catalog_plugins = [ shipped |-> FALSE, plugins |-> r ]
  /\ opts = << >>

\* gpio_app.py line 98: plugin_options = build_plugin_options(self.gpio_plugins)
BuildOptions ==
  /\ phase = "compose"
  /\ phase' = "ready"
  /\ opts' = build_plugin_options(CatalogPlugins)
  /\ UNCHANGED << HAS_ADAFRUIT, HAS_SMBUS, disk, registry, registered,
                  catalog_plugins, gpio_sem, fixed_pin_sensors, last_row_key,
                  table, gpio_task, i2c_task, sensor_poll_task, details_task,
                  orphans, lost_threads, events, pinmap, fault >>

CatalogNext == BuildOptions

CatalogSpec == CatalogInit /\ [][CatalogNext]_vars

(***************************************************************************)
(* build_table_rows and get_display_pin applied to bounded pin             *)
(* descriptions: up to MaxEntries entries as get_system_pin_info returns   *)
(* them (sorted by phys, line 263), the empty one being "no pin info".     *)
(***************************************************************************)
PhysIn == { 1, 3, 5 }

BcmIn == { -1, 2, 3 }

PinDescriptions ==
  UNION { { e \in [ 1 .. n -> [ phys : PhysIn, bcm : BcmIn ] ] :
              \A i, j \in 1 .. n : i <= j => e[i].phys <= e[j].phys } :
          n \in 0 .. MaxEntries }

\* the arguments get_display_pin is called with: pins of the scan range
DisplayArgs == { 2, 3, 4 }

\* GPIOApp.__init__ has run (line 66: the static map), compose has not yet
\* reached build_table_rows
PinMapInit ==
  /\ fault = NoFault
  /\ pins \in PinDescriptions
  /\ bcm_to_phys = BCM_TO_PHYS
  /\ row_bcm = << >>
  /\ disp = << 0, 0 >>
  /\ phase = "init"
  /\ HAS_ADAFRUIT = TRUE
  /\ HAS_SMBUS = TRUE
  /\ gpio_sem = 1
  /\ fixed_pin_sensors = << >>
  /\ last_row_key = 0
  /\ table = [ row \in Rows |-> [sensor |-> "-", info |-> ""] ]
  /\ gpio_task = NoTask
  /\ i2c_task = NoTask
  /\ sensor_poll_task = NoTask
  /\ details_task = NoTask
  /\ orphans = {}
  /\ lost_threads = {}
  /\ events = 0
  /\ disk = ShippedLayout
  /\ registry = load_gpio_plugins(ShippedDisk).plugins
  /\ registered = load_gpio_plugins(ShippedDisk).registered
  /\ catalog_plugins = [ shipped |-> TRUE, plugins |-> << >> ]
  /\ opts = << >>

\* gpio_app.py line 116: self.build_table_rows()
BuildTableRows ==
  /\ phase = "init"
  /\ phase' = "compose"
  /\ LET r == build_table_rows(bcm_to_phys, pins)
     IN /\ bcm_to_phys' = r.BCM_TO_PHYS
        /\ row_bcm' = r.rows
  /\ UNCHANGED << HAS_ADAFRUIT, HAS_SMBUS, disk, registry, registered,
                  catalog_plugins, opts, pins, disp, gpio_sem,
                  fixed_pin_sensors, last_row_key, table, gpio_task, i2c_task,
                  sensor_poll_task, details_task, orphans, lost_threads,
                  events, fault >>

\* a call of get_display_pin (lines 79, 86)
DisplayPin(bcm_pin) ==
  /\ phase = "compose"
  /\ disp' = << bcm_pin, get_display_pin(bcm_pin) >>
  /\ UNCHANGED << phase, HAS_ADAFRUIT, HAS_SMBUS, disk, registry, registered,
                  catalog_plugins, opts, pins, bcm_to_phys, row_bcm, gpio_sem,
                  fixed_pin_sensors, last_row_key, table, gpio_task, i2c_task,
                  sensor_poll_task, details_task, orphans, lost_threads,
                  events, fault >>

PinMapNext ==
  \/ BuildTableRows
  \/ \E bcm_pin \in DisplayArgs : DisplayPin(bcm_pin)

PinMapSpec == PinMapInit /\ [][PinMapNext]_vars

(***************************************************************************)
(* refresh_gpio_states._do_refresh (195-223): created during compose, it   *)
(* is the first task the loop runs; it takes the semaphore, reads every    *)
(* pin without suspending and releases the semaphore in the same step.     *)
(***************************************************************************)
DoRefresh ==
  /\ phase = "compose"
  /\ gpio_sem = 1
  /\ phase' = "ready"
  /\ UNCHANGED << env, gpio_sem, fixed_pin_sensors, last_row_key, table,
                  gpio_task, i2c_task, sensor_poll_task, details_task, orphans,
                  lost_threads, events >>

OnMount ==
  /\ phase = "ready"
  /\ phase' = "mounted"
  /\ sensor_poll_task' = restart_poll(sensor_poll_task)
  /\ UNCHANGED << env, gpio_sem, fixed_pin_sensors, last_row_key, table,
                  gpio_task, i2c_task, details_task, orphans, lost_threads,
                  events >>

OnUnmount ==
  /\ phase = "mounted"
  /\ phase' = "unmounted"
  /\ sensor_poll_task' =
       IF Live(sensor_poll_task) THEN Cancel(sensor_poll_task)
       ELSE sensor_poll_task
  /\ UNCHANGED << env, gpio_sem, fixed_pin_sensors, last_row_key, table,
                  gpio_task, i2c_task, details_task, orphans, lost_threads,
                  events >>

(***************************************************************************)
(* UI message handlers.                                                    *)
(***************************************************************************)
UiEvent ==
  /\ phase = "mounted"
  /\ events < MaxEvents
  /\ events' = events + 1

\* variant of toggle that starts a task whatever the attribute refers to
toggle_always_starting(t, kind) ==
  [ handle |-> Task(kind, 0), orphan |-> IF Live(t) THEN { t } ELSE {} ]

\* on_button_pressed, 305-309 and 310-314: the toggle of one task attribute
toggle(t, kind) ==
  IF ~Live(t)
  THEN [ handle |-> Task(kind, 0), orphan |-> {} ]
  ELSE [ handle |-> Cancel(t), orphan |-> {} ]

\* variant of scan_selected that replaces the running task without cancelling
\* it
scan_selected_not_cancelling(t, row_key) ==
  LET bcm_pin == RowBcm(row_key)
  IN IF row_key # 0 /\ bcm_pin # -1 /\ bcm_pin \notin BUS_PINS
     THEN [ handle |-> Task("scan_pin", bcm_pin),
            orphan |-> IF Live(t) THEN { t } ELSE {} ]
     ELSE [ handle |-> t, orphan |-> {} ]

\* on_button_pressed, 315-323: the single-pin scan of the selected row;
\* the result is the new gpio_task and the task it replaces, if still live
scan_selected(t, row_key) ==
  LET bcm_pin == RowBcm(row_key)
  IN IF row_key # 0 /\ bcm_pin # -1 /\ bcm_pin \notin BUS_PINS
     THEN [ handle |-> Task("scan_pin", bcm_pin),
            orphan |-> IF Live(t) THEN { Cancel(t) } ELSE {} ]
     ELSE [ handle |-> t, orphan |-> {} ]

PressGpio ==
  /\ UiEvent
  /\ LET r == toggle(gpio_task, "scan_gpio")
     IN /\ gpio_task' = r.handle
        /\ orphans' = orphans \cup r.orphan
  /\ UNCHANGED << phase, env, gpio_sem, fixed_pin_sensors, last_row_key, table,
                  i2c_task, sensor_poll_task, details_task, lost_threads >>

PressI2c ==
  /\ UiEvent
  /\ LET r == toggle(i2c_task, "scan_i2c")
     IN /\ i2c_task' = r.handle
        /\ orphans' = orphans \cup r.orphan
  /\ UNCHANGED << phase, env, gpio_sem, fixed_pin_sensors, last_row_key, table,
                  gpio_task, sensor_poll_task, details_task, lost_threads >>

PressScanSelected ==
  /\ UiEvent
  /\ LET r == scan_selected(gpio_task, last_row_key)
     IN /\ gpio_task' = r.handle
        /\ orphans' = orphans \cup r.orphan
  /\ UNCHANGED << phase, env, gpio_sem, fixed_pin_sensors, last_row_key, table,
                  i2c_task, sensor_poll_task, details_task, lost_threads >>

\* on_button_pressed, 324-328
PressStopAll ==
  /\ UiEvent
  /\ gpio_task' = IF Live(gpio_task) THEN Cancel(gpio_task) ELSE gpio_task
  /\ i2c_task' = IF Live(i2c_task) THEN Cancel(i2c_task) ELSE i2c_task
  /\ UNCHANGED << phase, env, gpio_sem, fixed_pin_sensors, last_row_key, table,
                  sensor_poll_task, details_task, orphans, lost_threads >>

\* variant of select_changed that keeps an entry the store already holds
select_changed_keeping(fixed, tbl, row_key, value) ==
  LET bcm_pin == RowBcm(row_key)
  IN IF row_key = 0 \/ bcm_pin = -1 \/ Has(fixed, bcm_pin)
     THEN [ fixed |-> fixed, table |-> tbl ]
     ELSE [ fixed |-> Put(fixed, bcm_pin, value),
            table |-> update_sensor(tbl, row_key, value, "manual") ]

\* on_select_changed, 403-416
select_changed(fixed, tbl, row_key, value) ==
  LET bcm_pin == RowBcm(row_key)
  IN IF row_key = 0 \/ bcm_pin = -1
     THEN [ fixed |-> fixed, table |-> tbl ]
     ELSE [ fixed |-> Put(fixed, bcm_pin, value),
            table |-> update_sensor(tbl, row_key, value, "manual") ]

\* the select values the model offers: a plugin whose read takes the
\* semaphore, one whose read does not, the bus-device entry, a role entry
SelectValues == { "DHT22", "BMP280", "I2C", "TM1637:CLK" }

OnSelectChanged(value) ==
  /\ UiEvent
  /\ \E i \in 1 .. Len(opts) : opts[i] = value
  /\ LET r == select_changed(fixed_pin_sensors, table, last_row_key, value)
     IN /\ fixed_pin_sensors' = r.fixed
        /\ table' = r.table
  /\ UNCHANGED << phase, env, gpio_sem, last_row_key, gpio_task, i2c_task,
                  sensor_poll_task, details_task, orphans, lost_threads >>

\* _show_row_details, 339-353, up to its first suspension: the read that
\* plugin.details issues (dht22.py 45-55, ds18b20.py 63-79, bmp280.py 86-95)
show_row_details(tbl, row_key, s, w1) ==
  LET bcm_pin == RowBcm(row_key)
      sensor == tbl[row_key].sensor
      read_pin == IF sensor = "DHT22" THEN bcm_pin
                  ELSE IF sensor = "DS18B20"
                       THEN (IF bcm_pin = -1 \/ bcm_pin = 0 THEN W1Pin ELSE bcm_pin)
                       ELSE (IF bcm_pin = -1 THEN 0 ELSE bcm_pin)
      c == PluginCall(sensor, "read", read_pin, s, w1)
  IN IF \/ sensor = "" \/ sensor = "-"
        \/ PluginIndex(sensor) = 0
        \/ (sensor = "DHT22" /\ bcm_pin = -1)
        \/ c.call = "none"
     THEN [ t |-> NoTask, sem |-> s ]
     ELSE [ t |-> [ Task("details", read_pin) EXCEPT
                      !.pc = "read", !.idx = PluginIndex(sensor),
                      !.call = c.call, !.plock = c.plock, !.dev = c.dev ],
            sem |-> c.sem ]

\* on_data_table_row_selected / row_highlighted / cell_selected, 390-401; the
\* handler awaits _show_row_details, so the next row message is handled only
\* after the previous call has returned
RowSelected(row_key) ==
  /\ UiEvent
  /\ ~Live(details_task)
  /\ last_row_key' = row_key
  /\ \E w1 \in BOOLEAN :
       LET r == show_row_details(table, row_key, gpio_sem, w1)
       IN /\ details_task' = r.t
          /\ gpio_sem' = r.sem
  /\ UNCHANGED << phase, env, fixed_pin_sensors, table, gpio_task, i2c_task,
                  sensor_poll_task, orphans, lost_threads >>

(***************************************************************************)
(* Steps of the scan tasks.                                                *)
(***************************************************************************)
\* the result r of a scan_gpio step; on return, lines 442-443
GpioApply(r, poll) ==
  /\ gpio_task' = r.t
  /\ table' = r.table
  /\ gpio_sem' = r.sem
  /\ sensor_poll_task' = IF r.t.pc = "done" THEN restart_poll(poll) ELSE poll

\* first step of scan_gpio: lines 419-428
GpioStart ==
  /\ gpio_task.kind = "scan_gpio"
  /\ gpio_task.pc = "start"
  /\ ~gpio_task.cancelled
  /\ LET pp == pause_poll(sensor_poll_task)
     IN /\ GpioApply(gpio_next_pin(gpio_task, FirstPin, table, gpio_sem),
                     pp.handle)
        /\ orphans' = orphans \cup pp.orphan
  /\ UNCHANGED << phase, env, fixed_pin_sensors, last_row_key, i2c_task,
                  details_task, lost_threads, events >>

\* asyncio.sleep(SCAN_PIN_DELAY) of line 428 is over
GpioWake ==
  /\ gpio_task.kind = "scan_gpio"
  /\ gpio_task.pc = "sleep"
  /\ ~gpio_task.cancelled
  /\ \E w1 \in BOOLEAN :
       GpioApply(gpio_try(gpio_task, 1, table, gpio_sem, w1), sensor_poll_task)
  /\ UNCHANGED << phase, env, fixed_pin_sensors, last_row_key, i2c_task,
                  details_task, orphans, lost_threads, events >>

\* the blocked "async with self.gpio_sem" of line 433 gets the semaphore
GpioAcquire ==
  /\ gpio_task.kind = "scan_gpio"
  /\ gpio_task.pc = "acquire"
  /\ ~gpio_task.cancelled
  /\ gpio_sem = 1
  /\ \E w1 \in BOOLEAN :
       GpioApply(gpio_enter(gpio_task, gpio_task.idx, table, w1),
                 sensor_poll_task)
  /\ UNCHANGED << phase, env, fixed_pin_sensors, last_row_key, i2c_task,
                  details_task, orphans, lost_threads, events >>

\* variant of pin_poll for a single-pin scan that pauses the poll loop as the
\* full-range scan does
pin_poll_pausing(poll) == pause_poll(poll).handle

\* scan_pin (355-366) has no statement on self.sensor_poll_task
pin_poll(poll) == poll

\* first step of scan_pin: lines 356-361
PinStart ==
  /\ gpio_task.kind = "scan_pin"
  /\ gpio_task.pc = "start"
  /\ ~gpio_task.cancelled
  /\ \E w1 \in BOOLEAN :
       LET r == pin_try(gpio_task, 1, table, gpio_sem, w1)
       IN /\ gpio_task' = r.t
          /\ table' = r.table
          /\ gpio_sem' = r.sem
  /\ sensor_poll_task' = pin_poll(sensor_poll_task)
  /\ UNCHANGED << phase, env, fixed_pin_sensors, last_row_key, i2c_task,
                  details_task, orphans, lost_threads, events >>

\* a plugin coroutine blocked in "async with ctx.gpio_sem" gets the semaphore
\* and starts its worker thread (dht22.py 22-23 / 37-38)
Granted(t) ==
  [ t EXCEPT !.call = "thread", !.plock = TRUE, !.dev = "dht" ]

ScanSemGranted ==
  /\ gpio_task.pc = "detect"
  /\ gpio_task.call = "semwait"
  /\ ~gpio_task.cancelled
  /\ gpio_sem = 1
  /\ gpio_sem' = 0
  /\ gpio_task' = Granted(gpio_task)
  /\ UNCHANGED << phase, env, fixed_pin_sensors, last_row_key, table, i2c_task,
                  sensor_poll_task, details_task, orphans, lost_threads,
                  events >>

\* the awaited detect ends; ok: its worker thread produced a reading the
\* plugin accepts and detect returns (name, info, color); else it returns
\* None, or detect or the unpacking of its result raises
DetectEnds(ok) ==
  /\ gpio_task.pc = "detect"
  /\ gpio_task.call = "thread"
  /\ ~gpio_task.cancelled
  /\ LET t == gpio_task
         name == gpio_plugins[t.idx].name
         s == SemAfter(t, gpio_sem)
     IN \E w1 \in BOOLEAN :
          IF t.kind = "scan_gpio"
          THEN IF ok
               THEN LET d == gpio_detected(Plain(t), table, name)
                    IN /\ GpioApply(gpio_next_pin(d.t, t.pin + 1, d.table, s),
                                    sensor_poll_task)
                       /\ fixed_pin_sensors' = d.fixed
               ELSE /\ GpioApply(detect_failed(Plain(t), t.idx, table, s, w1),
                                 sensor_poll_task)
                    /\ UNCHANGED fixed_pin_sensors
          ELSE LET r == IF ok
                        THEN [ t |-> Finished(t),
                               table |-> set_sensor_result(table, t.pin, name,
                                                           Reading(name)),
                               sem |-> s ]
                        ELSE pin_detect_failed(Plain(t), t.idx, table, s, w1)
               IN /\ gpio_task' = r.t
                  /\ table' = r.table
                  /\ gpio_sem' = r.sem
                  /\ UNCHANGED << fixed_pin_sensors, sensor_poll_task >>
  /\ UNCHANGED << phase, last_row_key, i2c_task, details_task, orphans,
                  lost_threads, events >>

ScanDetectReturn(ok) == DetectEnds(ok) /\ UNCHANGED env

\* variant of TimeoutEnabled for a detect call awaited without a timeout
TimeoutNever(t) == FALSE

\* asyncio.wait_for(..., timeout=SCAN_PLUGIN_TIMEOUT) gives up: the detect
\* coroutine is cancelled (its worker thread is not) and TimeoutError is raised
TimeoutEnabled(t) == t.pc = "detect" /\ ~t.cancelled

ScanTimeout ==
  /\ TimeoutEnabled(gpio_task)
  /\ LET t == gpio_task
         name == gpio_plugins[t.idx].name
         s == SemAfter(t, gpio_sem)
     IN /\ lost_threads' = LostAfter(t, lost_threads)
        /\ \E w1 \in BOOLEAN :
             IF t.kind = "scan_gpio"
             THEN GpioApply(
                    gpio_try(Plain(t), t.idx + 1,
                             set_scan_marker(table, t.pin, "Timeout " \o name),
                             s, w1),
                    sensor_poll_task)
             ELSE LET r == pin_try(Plain(t), t.idx + 1, table, s, w1)
                  IN /\ gpio_task' = r.t
                     /\ table' = r.table
                     /\ gpio_sem' = r.sem
                     /\ UNCHANGED sensor_poll_task
  /\ UNCHANGED << phase, env, fixed_pin_sensors, last_row_key, i2c_task,
                  details_task, orphans, events >>

\* a cancelled task runs again: CancelledError is raised at the await it is
\* suspended at, leaves every "async with" and ends the coroutine
\* (scan_gpio 441, scan_i2c 460, poll_sensors_periodically 388)
ScanCancelled ==
  /\ Live(gpio_task)
  /\ gpio_task.cancelled
  /\ gpio_task' = EndedCancelled(gpio_task)
  /\ gpio_sem' = SemAfter(gpio_task, gpio_sem)
  /\ lost_threads' = LostAfter(gpio_task, lost_threads)
  /\ UNCHANGED << phase, env, fixed_pin_sensors, last_row_key, table, i2c_task,
                  sensor_poll_task, details_task, orphans, events >>

OrphanEnds(o) ==
  /\ o \in orphans
  /\ o.cancelled
  /\ orphans' = orphans \ {o}
  /\ gpio_sem' = SemAfter(o, gpio_sem)
  /\ lost_threads' = LostAfter(o, lost_threads)
  /\ UNCHANGED << phase, env, fixed_pin_sensors, last_row_key, table, gpio_task,
                  i2c_task, sensor_poll_task, details_task, events >>

\* an abandoned worker thread ends
LostThreadEnds(dev) ==
  /\ dev \in lost_threads
  /\ lost_threads' = lost_threads \ {dev}
  /\ UNCHANGED << phase, env, gpio_sem, fixed_pin_sensors, last_row_key, table,
                  gpio_task, i2c_task, sensor_poll_task, details_task, orphans,
                  events >>

(***************************************************************************)
(* Steps of scan_i2c (445-461).  The task's pin field holds addr.          *)
(***************************************************************************)
I2cProbe(t, addr) ==
  [ Plain(t) EXCEPT !.pc = "probe", !.pin = addr, !.call = "thread",
                    !.dev = "smbus" ]

\* lines 446-457; opened: smbus.SMBus(1) did not raise
I2cStart(opened) ==
  /\ i2c_task.pc = "start"
  /\ i2c_task.kind = "scan_i2c"
  /\ ~i2c_task.cancelled
  /\ i2c_task' = IF HAS_SMBUS /\ opened /\ FirstAddr <= LastAddr
                 THEN I2cProbe(i2c_task, FirstAddr)
                 ELSE Finished(i2c_task)
  /\ UNCHANGED << phase, env, gpio_sem, fixed_pin_sensors, last_row_key, table,
                  gpio_task, sensor_poll_task, details_task, orphans,
                  lost_threads, events >>

\* lines 457-459: try_write returned
I2cProbeReturn(found) ==
  /\ i2c_task.pc = "probe"
  /\ ~i2c_task.cancelled
  /\ table' = IF found
              THEN update_sensor(table, I2CRow, "I2C",
                                 "Addr 0x" \o Hex2(i2c_task.pin))
              ELSE table
  /\ i2c_task' = [ Plain(i2c_task) EXCEPT !.pc = "sleep" ]
  /\ UNCHANGED << phase, env, gpio_sem, fixed_pin_sensors, last_row_key,
                  gpio_task, sensor_poll_task, details_task, orphans,
                  lost_threads, events >>

\* asyncio.sleep(I2C_SCAN_DELAY) is over: next address, or lines 460-461
I2cWake ==
  /\ i2c_task.pc = "sleep"
  /\ ~i2c_task.cancelled
  /\ i2c_task' = IF i2c_task.pin + 1 <= LastAddr
                 THEN I2cProbe(i2c_task, i2c_task.pin + 1)
                 ELSE Finished(i2c_task)
  /\ UNCHANGED << phase, env, gpio_sem, fixed_pin_sensors, last_row_key, table,
                  gpio_task, sensor_poll_task, details_task, orphans,
                  lost_threads, events >>

I2cCancelled ==
  /\ Live(i2c_task)
  /\ i2c_task.cancelled
  /\ i2c_task' = EndedCancelled(i2c_task)
  /\ lost_threads' = LostAfter(i2c_task, lost_threads)
  /\ UNCHANGED << phase, env, gpio_sem, fixed_pin_sensors, last_row_key, table,
                  gpio_task, sensor_poll_task, details_task, orphans, events >>

(***************************************************************************)
(* Steps of the poll loop and of the details call.                         *)
(***************************************************************************)
PollApply(r) ==
  /\ sensor_poll_task' = r.t
  /\ table' = r.table
  /\ gpio_sem' = r.sem

\* a pass begins: the first step of the task, or asyncio.sleep(SCAN_PIN_DELAY),
\* table.refresh() and asyncio.sleep(interval) of lines 384-387 are over;
\* line 374 takes the snapshot of the assignments
PollPass ==
  /\ sensor_poll_task.kind = "poll"
  /\ sensor_poll_task.pc \in { "start", "sleep" }
  /\ ~sensor_poll_task.cancelled
  /\ \E w1 \in BOOLEAN :
       PollApply(poll_items([ sensor_poll_task EXCEPT
                                !.items = fixed_pin_sensors,
                                !.unread = Range(fixed_pin_sensors) ],
                            1, table, gpio_sem, w1))
  /\ UNCHANGED << phase, env, fixed_pin_sensors, last_row_key, gpio_task,
                  i2c_task, details_task, orphans, lost_threads, events >>

PollSemGranted ==
  /\ sensor_poll_task.pc = "read"
  /\ sensor_poll_task.call = "semwait"
  /\ ~sensor_poll_task.cancelled
  /\ gpio_sem = 1
  /\ gpio_sem' = 0
  /\ sensor_poll_task' = Granted(sensor_poll_task)
  /\ UNCHANGED << phase, env, fixed_pin_sensors, last_row_key, table, gpio_task,
                  i2c_task, details_task, orphans, lost_threads, events >>

\* the worker thread of the awaited read ends; lines 379-380
PollReadReturn(ok) ==
  /\ sensor_poll_task.pc = "read"
  /\ sensor_poll_task.call = "thread"
  /\ ~sensor_poll_task.cancelled
  /\ LET t == sensor_poll_task
         name == t.items[t.idx][2]
         s == SemAfter(t, gpio_sem)
     IN \E w1 \in BOOLEAN :
          IF ok
          THEN PollApply(poll_items(Plain(t), t.idx + 1,
                                    update_sensor(table, get_display_pin(t.pin),
                                                  name, Reading(name)),
                                    s, w1))
          ELSE PollApply(read_failed(Plain(t), t.idx, table, s, w1))
  /\ UNCHANGED << phase, env, fixed_pin_sensors, last_row_key, gpio_task,
                  i2c_task, details_task, orphans, lost_threads, events >>

PollCancelled ==
  /\ Live(sensor_poll_task)
  /\ sensor_poll_task.cancelled
  /\ sensor_poll_task' = EndedCancelled(sensor_poll_task)
  /\ gpio_sem' = SemAfter(sensor_poll_task, gpio_sem)
  /\ lost_threads' = LostAfter(sensor_poll_task, lost_threads)
  /\ UNCHANGED << phase, env, fixed_pin_sensors, last_row_key, table, gpio_task,
                  i2c_task, details_task, orphans, events >>

DetailsSemGranted ==
  /\ details_task.pc = "read"
  /\ details_task.call = "semwait"
  /\ gpio_sem = 1
  /\ gpio_sem' = 0
  /\ details_task' = Granted(details_task)
  /\ UNCHANGED << phase, env, fixed_pin_sensors, last_row_key, table, gpio_task,
                  i2c_task, sensor_poll_task, orphans, lost_threads, events >>

\* the read of plugin.details returns; the text goes to the detail widget
DetailsReadReturn ==
  /\ details_task.pc = "read"
  /\ details_task.call = "thread"
  /\ details_task' = Finished(details_task)
  /\ gpio_sem' = SemAfter(details_task, gpio_sem)
  /\ UNCHANGED << phase, env, fixed_pin_sensors, last_row_key, table, gpio_task,
                  i2c_task, sensor_poll_task, orphans, lost_threads, events >>

(***************************************************************************)
(* Specification.                                                          *)
(***************************************************************************)
Next ==
  \/ DoRefresh
  \/ OnMount
  \/ OnUnmount
  \/ PressGpio
  \/ PressI2c
  \/ PressScanSelected
  \/ PressStopAll
  \/ \E value \in SelectValues : OnSelectChanged(value)
  \/ \E row_key \in SelectableRows : RowSelected(row_key)
  \/ GpioStart
  \/ GpioWake
  \/ GpioAcquire
  \/ PinStart
  \/ ScanSemGranted
  \/ \E ok \in BOOLEAN : ScanDetectReturn(ok)
  \/ ScanTimeout
  \/ ScanCancelled
  \/ \E o \in orphans : OrphanEnds(o)
  \/ \E dev \in lost_threads : LostThreadEnds(dev)
  \/ \E opened \in BOOLEAN : I2cStart(opened)
  \/ \E found \in BOOLEAN : I2cProbeReturn(found)
  \/ I2cWake
  \/ I2cCancelled
  \/ PollPass
  \/ PollSemGranted
  \/ \E ok \in BOOLEAN : PollReadReturn(ok)
  \/ PollCancelled
  \/ DetailsSemGranted
  \/ DetailsReadReturn

Spec == Init /\ [][Next]_vars

(***************************************************************************)
(* The full-range scan with what can compete with it for gpio_sem: the     *)
(* poll loop it pauses and the details call.  The event loop runs every    *)
(* task that is ready (a sleep that is over, a timeout that has expired, a *)
(* pending cancellation, a free semaphore) and the read behind a details   *)
(* call returns; nothing is assumed of the worker thread behind a detect   *)
(* call, which may never return.                                           *)
(***************************************************************************)
ScanNext ==
  \/ DoRefresh
  \/ OnMount
  \/ PressGpio
  \/ \E value \in SelectValues : OnSelectChanged(value)
  \/ \E row_key \in SelectableRows : RowSelected(row_key)
  \/ GpioStart
  \/ GpioWake
  \/ GpioAcquire
  \/ \E ok \in BOOLEAN : ScanDetectReturn(ok)
  \/ ScanTimeout
  \/ ScanCancelled
  \/ \E o \in orphans : OrphanEnds(o)
  \/ \E dev \in lost_threads : LostThreadEnds(dev)
  \/ PollPass
  \/ PollSemGranted
  \/ \E ok \in BOOLEAN : PollReadReturn(ok)
  \/ DetailsSemGranted
  \/ DetailsReadReturn

ScanFairness ==
  /\ WF_vars(GpioStart)
  /\ WF_vars(GpioWake)
  /\ WF_vars(GpioAcquire)
  /\ WF_vars(ScanTimeout)
  /\ WF_vars(ScanCancelled)
  /\ WF_vars(\E o \in orphans : OrphanEnds(o))
  /\ WF_vars(DetailsSemGranted)
  /\ WF_vars(DetailsReadReturn)

ScanSpec == Init /\ [][ScanNext]_vars /\ ScanFairness

(***************************************************************************)
(* The whole application with a fair event loop: a task that can take a    *)
(* step which does not depend on a worker thread (first step, sleep over,  *)
(* timeout expired, cancellation pending, semaphore free) takes it.        *)
(* Nothing is assumed of the worker threads: a read or a detect call may   *)
(* never return.                                                           *)
(***************************************************************************)
LoopFairness ==
  /\ WF_vars(GpioStart)
  /\ WF_vars(GpioWake)
  /\ WF_vars(GpioAcquire)
  /\ WF_vars(PinStart)
  /\ WF_vars(ScanSemGranted)
  /\ WF_vars(ScanTimeout)
  /\ WF_vars(ScanCancelled)
  /\ WF_vars(\E o \in orphans : OrphanEnds(o))
  /\ WF_vars(I2cWake)
  /\ WF_vars(I2cCancelled)
  /\ WF_vars(PollPass)
  /\ WF_vars(PollSemGranted)
  /\ WF_vars(PollCancelled)
  /\ WF_vars(DetailsSemGranted)

LoopSpec == Init /\ [][Next]_vars /\ LoopFairness

(***************************************************************************)
(* The poll loop over a store with several entries.  The scenario begins   *)
(* in a state the application reaches after mount: the first pass of the   *)
(* poll loop found the store empty and the loop sleeps; meanwhile the user *)
(* selected rows and assigned them (on_select_changed, once per pin), and  *)
(* the details calls of the selections have returned.  From there on the   *)
(* poll loop runs alone until the application is unmounted; its            *)
(* interleavings with the scans and the UI handlers are those of Spec.     *)
(***************************************************************************)
AssignablePins == { RowBcm(row) : row \in SelectableRows } \ { -1 }

\* the stores MaxAssigned or fewer selections on distinct rows produce
Assignments ==
  UNION { { a \in [ 1 .. n -> AssignablePins \X SelectValues ] :
              \A i, j \in 1 .. n : a[i][1] = a[j][1] => i = j } :
          n \in 0 .. MaxAssigned }

RECURSIVE AssignAll(_, _)
\* on_select_changed applied to the first n entries of a, each on its row
AssignAll(a, n) ==
  IF n = 0
  THEN [ fixed |-> << >>,
         table |-> [ row \in Rows |-> [sensor |-> "-", info |-> ""] ] ]
  ELSE LET r == AssignAll(a, n - 1)
       IN select_changed(r.fixed, r.table, get_display_pin(a[n][1]), a[n][2])

PollInit ==
  /\ PinMapStandard
  /\ fault = NoFault
  /\ phase = "mounted"
  /\ HAS_ADAFRUIT \in BOOLEAN
  /\ HAS_SMBUS \in BOOLEAN
  /\ gpio_sem = 1
  /\ \E a \in Assignments :
       LET r == AssignAll(a, Len(a))
       IN /\ fixed_pin_sensors = r.fixed
          /\ table = r.table
          /\ last_row_key = IF Len(a) = 0 THEN 0
                            ELSE get_display_pin(a[Len(a)][1])
          /\ details_task = IF Len(a) = 0 THEN NoTask
                            ELSE Finished(Task("details", 0))
  /\ gpio_task = NoTask
  /\ i2c_task = NoTask
  /\ sensor_poll_task = [ Task("poll", 0) EXCEPT !.pc = "sleep" ]
  /\ orphans = {}
  /\ lost_threads = {}
  /\ events = 0
  /\ disk = ShippedLayout
  /\ registry = load_gpio_plugins(ShippedDisk).plugins
  /\ registered = load_gpio_plugins(ShippedDisk).registered
  /\ catalog_plugins = [ shipped |-> TRUE, plugins |-> << >> ]
  /\ opts = build_plugin_options(gpio_plugins)

PollNext ==
  \/ OnUnmount
  \/ \E dev \in lost_threads : LostThreadEnds(dev)
  \/ PollPass
  \/ \E ok \in BOOLEAN : PollReadReturn(ok)
  \/ PollCancelled

PollSpec == PollInit /\ [][PollNext]_vars

(***************************************************************************)
(* The full-range scan started over a store that already has entries, next *)
(* to the poll loop and to the details call of a selected row, with a fair *)
(* event loop and worker threads that may never return.  Every entry of    *)
(* the store is a DHT22, the one plugin whose read runs under gpio_sem.    *)
(***************************************************************************)
BusyInit ==
  /\ PollInit
  /\ \A item \in Range(fixed_pin_sensors) : item[2] = "DHT22"

BusyNext ==
  \/ PressGpio
  \/ \E row_key \in SelectableRows : RowSelected(row_key)
  \/ GpioStart
  \/ GpioWake
  \/ GpioAcquire
  \/ \E ok \in BOOLEAN : ScanDetectReturn(ok)
  \/ ScanTimeout
  \/ ScanCancelled
  \/ \E o \in orphans : OrphanEnds(o)
  \/ \E dev \in lost_threads : LostThreadEnds(dev)
  \/ PollPass
  \/ PollSemGranted
  \/ \E ok \in BOOLEAN : PollReadReturn(ok)
  \/ DetailsSemGranted
  \/ DetailsReadReturn

BusySpec == BusyInit /\ [][BusyNext]_vars /\ LoopFairness

(***************************************************************************)
(* Full-range scans over a store that may already hold every candidate pin *)
(* of the range: scan_gpio then skips every pin at line 427 and reaches    *)
(* line 443 in the step that began at line 418, without suspending.  The   *)
(* button may be pressed again while a scan runs (line 306 cancels it).    *)
(***************************************************************************)
RestartInit ==
  /\ BusyInit
  /\ HAS_ADAFRUIT
  /\ ~HAS_SMBUS

RestartNext ==
  \/ PressGpio
  \/ GpioStart
  \/ GpioWake
  \/ GpioAcquire
  \/ \E ok \in BOOLEAN : ScanDetectReturn(ok)
  \/ ScanTimeout
  \/ ScanCancelled
  \/ \E o \in orphans : OrphanEnds(o)
  \/ \E dev \in lost_threads : LostThreadEnds(dev)
  \/ PollPass
  \/ PollSemGranted
  \/ \E ok \in BOOLEAN : PollReadReturn(ok)

RestartSpec == RestartInit /\ [][RestartNext]_vars

(***************************************************************************)
(* The two scans with plugins whose detect may raise (or return something  *)
(* that cannot be unpacked).  DetectRaises is ScanDetectReturn(FALSE) with *)
(* the raising call observed in fault; a detect that raises before it      *)
(* first suspends is, like one that returns None at once, part of the step *)
(* that called it (PluginCall).                                            *)
(***************************************************************************)
DetectRaises ==
  /\ DetectEnds(FALSE)
  /\ fault' = << gpio_task.kind, gpio_task.pin,
                 gpio_plugins[gpio_task.idx].name >>
  /\ UNCHANGED << HAS_ADAFRUIT, HAS_SMBUS, disk, registry, registered,
                  catalog_plugins, opts, pinmap >>

FaultNext ==
  \/ DoRefresh
  \/ OnMount
  \/ PressGpio
  \/ PressScanSelected
  \/ \E value \in SelectValues : OnSelectChanged(value)
  \/ \E row_key \in SelectableRows : RowSelected(row_key)
  \/ GpioStart
  \/ GpioWake
  \/ GpioAcquire
  \/ PinStart
  \/ ScanSemGranted
  \/ \E ok \in BOOLEAN : ScanDetectReturn(ok)
  \/ DetectRaises
  \/ ScanTimeout
  \/ ScanCancelled
  \/ \E o \in orphans : OrphanEnds(o)
  \/ \E dev \in lost_threads : LostThreadEnds(dev)
  \/ PollPass
  \/ PollSemGranted
  \/ \E ok \in BOOLEAN : PollReadReturn(ok)
  \/ DetailsSemGranted
  \/ DetailsReadReturn

FaultSpec == Init /\ [][FaultNext]_vars

(***************************************************************************)
(* The application on a host that gives no pin description:                *)
(* get_system_pin_info returns [] and build_table_rows (lines 152-157)     *)
(* adds the rows 1..40 with an empty BCM cell and leaves BCM_TO_PHYS as    *)
(* __init__ set it.  The user selects rows, picks sensors, asks for a scan *)
(* of the selected row and starts or stops the full-range scan, which      *)
(* still writes its markers and results through BCM_TO_PHYS.  No entry can *)
(* reach the store and DHT22 cannot be detected under the scan's own       *)
(* semaphore, so nothing ever reads under gpio_sem and no task waits for   *)
(* it; the bus is not scanned, so smbus plays no part.                     *)
(***************************************************************************)
PlaceholderInit ==
  /\ pins = << >>
  /\ bcm_to_phys = build_table_rows(BCM_TO_PHYS, << >>).BCM_TO_PHYS
  /\ row_bcm = build_table_rows(BCM_TO_PHYS, << >>).rows
  /\ disp = << 0, 0 >>
  /\ fault = NoFault
  /\ phase = "compose"
  /\ HAS_ADAFRUIT \in BOOLEAN
  /\ HAS_SMBUS = FALSE
  /\ gpio_sem = 1
  /\ fixed_pin_sensors = << >>
  /\ last_row_key = 0
  /\ table = [ row \in 1 .. LastPhys |-> [sensor |-> "-", info |-> ""] ]
  /\ gpio_task = NoTask
  /\ i2c_task = NoTask
  /\ sensor_poll_task = NoTask
  /\ details_task = NoTask
  /\ orphans = {}
  /\ lost_threads = {}
  /\ events = 0
  /\ disk = ShippedLayout
  /\ registry = load_gpio_plugins(ShippedDisk).plugins
  /\ registered = load_gpio_plugins(ShippedDisk).registered
  /\ catalog_plugins = [ shipped |-> TRUE, plugins |-> << >> ]
  /\ opts = build_plugin_options(gpio_plugins)

PlaceholderNext ==
  \/ DoRefresh
  \/ OnMount
  \/ PressGpio
  \/ PressScanSelected
  \/ \E value \in SelectValues : OnSelectChanged(value)
  \/ \E row_key \in DOMAIN row_bcm : RowSelected(row_key)
  \/ GpioStart
  \/ GpioWake
  \/ \E ok \in BOOLEAN : ScanDetectReturn(ok)
  \/ ScanTimeout
  \/ ScanCancelled
  \/ \E o \in orphans : OrphanEnds(o)
  \/ \E dev \in lost_threads : LostThreadEnds(dev)
  \/ PollPass
  \/ DetailsReadReturn

PlaceholderSpec == PlaceholderInit /\ [][PlaceholderNext]_vars

(***************************************************************************)
(* Hardware transactions in flight: the worker threads of the live tasks   *)
(* and the abandoned ones.                                                 *)
(***************************************************************************)
InFlight(t) == Live(t) /\ t.call = "thread" /\ t.dev # "none"

Attached == << gpio_task, i2c_task, sensor_poll_task, details_task >>

HwCount ==
  Cardinality({ i \in 1 .. Len(Attached) : InFlight(Attached[i]) })
  + Cardinality({ o \in orphans : InFlight(o) })
  + Cardinality(lost_threads)

\* a task that was started, has not ended and was not asked to stop
Running(t) == Live(t) /\ ~t.cancelled

RunningCount(kind) ==
  Cardinality({ i \in 1 .. Len(Attached) :
                  Running(Attached[i]) /\ Attached[i].kind = kind })
  + Cardinality({ o \in orphans : Running(o) /\ o.kind = kind })

\* the full-range scan is past its first step and neither ended nor cancelled
FullScanRunning ==
  /\ gpio_task.kind = "scan_gpio"
  /\ Running(gpio_task)
  /\ gpio_task.pc # "start"

\* the full-range scan returned (it was not cancelled)
FullScanCompleted ==
  /\ gpio_task.kind = "scan_gpio"
  /\ gpio_task.pc = "done"
  /\ ~gpio_task.cancelled

(***************************************************************************)
(* C1.  In every interleaving of the scans, the poll loop, the details     *)
(* fetch and the table refresh, at most one hardware transaction is in     *)
(* flight at any instant.                                                  *)
(* Refuted by the code: scan_i2c never takes gpio_sem (457), DS18B20 and   *)
(* BMP280 never take it either, and scan_pin calls detect without it.      *)
(***************************************************************************)
C1_AtMostOneHardwareTransaction == HwCount <= 1

(***************************************************************************)
(* C2.  Every hardware operation runs only while gpio_sem is held by the   *)
(* task performing it.                                                     *)
(* Refuted by the code: the write_quick probe of scan_i2c runs in a worker *)
(* thread of a task that holds nothing.                                    *)
(***************************************************************************)
C2_HardwareOnlyUnderSemaphore ==
  /\ \A i \in 1 .. Len(Attached) :
       InFlight(Attached[i]) => Attached[i].held \/ Attached[i].plock
  /\ \A o \in orphans : InFlight(o) => o.held \/ o.plock

(***************************************************************************)
(* C3.  If a plugin's detect call hangs during a full-range scan, the scan *)
(* does not block indefinitely: the timeout of line 434 ends the wait, the *)
(* scan goes on with the next plugin or pin, and so every full-range scan  *)
(* that was started ends.                                                  *)
(***************************************************************************)
FullScanLive == gpio_task.kind = "scan_gpio" /\ Live(gpio_task)

C3_HungDetectDoesNotBlockScan == FullScanLive ~> ~FullScanLive

\* after a single press of Scan GPIO the scan has returned although the
\* worker thread of a DS18B20 detect call it gave up on is still running
C3_Witness ==
  /\ events = 1
  /\ FullScanCompleted
  /\ "w1" \in lost_threads

(***************************************************************************)
(* C4.  Cancelling a running full-range scan mid-iteration leaves every    *)
(* per-pin result written before the cancellation intact and returns the   *)
(* poll loop to the running state.                                         *)
(* Stated on the step in which the cancelled scan ends.  Refuted by the    *)
(* code: line 441 returns on CancelledError before line 443 is reached.    *)
(***************************************************************************)
C4_CancelKeepsResultsAndResumesPoll ==
  [][ /\ phase = "mounted"
      /\ gpio_task.kind = "scan_gpio"
      /\ Live(gpio_task)
      /\ gpio_task.pc # "start"
      /\ gpio_task.cancelled
      /\ gpio_task'.pc = "done"
      => /\ table' = table
         /\ Running(sensor_poll_task') ]_vars

(***************************************************************************)
(* C5.  If a plugin's detect returns a result for an unassigned,           *)
(* non-reserved pin P during a full-range scan, then after the scan        *)
(* completes the row of P shows the plugin's sensorType and info and       *)
(* fixed_pin_sensors maps P to the plugin's name.                          *)
(* Refuted by the code: scan_gpio never writes fixed_pin_sensors.          *)
(***************************************************************************)
C5_DetectionShownAndAssigned ==
  FullScanCompleted =>
    \A h \in gpio_task.hits :
      /\ table[get_display_pin(h[1])] =
           [sensor |-> h[2], info |-> Reading(h[2])]
      /\ Has(fixed_pin_sensors, h[1])
      /\ Get(fixed_pin_sensors, h[1]) = h[2]

(***************************************************************************)
(* C6.  No scan and no poll pass ever changes or removes an existing       *)
(* entry of fixed_pin_sensors: an entry of pin P changes only in a step    *)
(* that is a manual selection made while the row of P is selected.         *)
(***************************************************************************)
ManualSelectionOn(pin) ==
  /\ last_row_key # 0
  /\ RowBcm(last_row_key) = pin
  /\ \E value \in SelectValues : OnSelectChanged(value)

C6_ScansAndPollKeepAssignments ==
  [][ \A pin \in Keys(fixed_pin_sensors) :
        \/ /\ Has(fixed_pin_sensors', pin)
           /\ Get(fixed_pin_sensors', pin) = Get(fixed_pin_sensors, pin)
        \/ ManualSelectionOn(pin) ]_vars

\* pin 4 is assigned, a full-range scan has completed and the restarted poll
\* loop has made a pass
C6_Witness ==
  /\ Has(fixed_pin_sensors, W1Pin)
  /\ FullScanCompleted
  /\ sensor_poll_task.pc = "sleep"

(***************************************************************************)
(* C7.  For every pin that has an entry in fixed_pin_sensors when the      *)
(* full-range scan reaches it, the scan skips the pin: it starts to work   *)
(* on a pin only if the pin has no entry at that moment, and it issues     *)
(* detect calls only for the pin it works on.                              *)
(***************************************************************************)
C7_ScanSkipsAssignedPins ==
  [][ /\ ( /\ gpio_task'.kind = "scan_gpio"
           /\ gpio_task'.pc = "sleep"
           /\ gpio_task.pc # "sleep" \/ gpio_task.pin # gpio_task'.pin )
         => ~Has(fixed_pin_sensors, gpio_task'.pin)
      /\ ( /\ gpio_task'.kind = "scan_gpio"
           /\ gpio_task'.pc \in { "acquire", "detect" } )
         => /\ gpio_task.kind = "scan_gpio"
            /\ gpio_task.pc \in { "sleep", "acquire", "detect" }
            /\ gpio_task'.pin = gpio_task.pin ]_vars

\* the scan works on pin 5 while the row of pin 4 shows a poll result of its
\* assigned plugin: the assignment was made and polled before the scan began
C7_Witness ==
  /\ FullScanRunning
  /\ gpio_task.pin = W1Pin + 1
  /\ Has(fixed_pin_sensors, W1Pin)
  /\ table[get_display_pin(W1Pin)].info = Reading("DHT22")

(***************************************************************************)
(* C8.  No detect call is ever issued on a reserved bus pin: every scan    *)
(* task, full-range or single-pin, works on a pin outside BUS_PINS.        *)
(***************************************************************************)
ScanTasks ==
  { t \in { gpio_task } \cup orphans : t.kind \in { "scan_gpio", "scan_pin" } }

C8_NoDetectOnBusPins ==
  \A t \in ScanTasks : t.pin # 0 => t.pin \notin BUS_PINS

\* the full-range scan awaits a detect call on pin 4, having passed the bus
\* pins 2 and 3
C8_Witness ==
  /\ FullScanRunning
  /\ gpio_task.pc = "detect"
  /\ gpio_task.pin = W1Pin

(***************************************************************************)
(* C9.  A start request for a scan kind that is already running is treated *)
(* as a stop request; consequently at most one full-range scan task and at *)
(* most one I2C task is running at any time.                               *)
(* As stated for every scan kind the claim fails: a single-pin request     *)
(* made while a single-pin scan runs cancels it and starts a new one       *)
(* (321-322).  It holds for the two toggle buttons.                        *)
(***************************************************************************)
SinglePinRequest ==
  /\ PressScanSelected
  /\ last_row_key # 0
  /\ RowBcm(last_row_key) # -1
  /\ RowBcm(last_row_key) \notin BUS_PINS

ToggleStops ==
  /\ (PressGpio /\ Running(gpio_task) /\ gpio_task.kind = "scan_gpio")
       => gpio_task' = Cancel(gpio_task) /\ orphans' = orphans
  /\ (PressI2c /\ Running(i2c_task))
       => i2c_task' = Cancel(i2c_task) /\ orphans' = orphans

C9_EveryKindToggles ==
  [][ /\ ToggleStops
      /\ (SinglePinRequest /\ Running(gpio_task) /\ gpio_task.kind = "scan_pin")
           => gpio_task' = Cancel(gpio_task) ]_vars

C9_ToggleButtonsStop ==
  /\ [](RunningCount("scan_gpio") <= 1 /\ RunningCount("scan_i2c") <= 1)
  /\ [][ToggleStops]_vars

\* a second press of Scan GPIO has stopped the scan the first one started
C9_Witness ==
  /\ events = 2
  /\ last_row_key = 0
  /\ i2c_task = NoTask
  /\ gpio_task.kind = "scan_gpio"
  /\ Live(gpio_task)
  /\ gpio_task.cancelled

(***************************************************************************)
(* C10.  While a full-range scan is running the poll loop is paused (no    *)
(* poll task that was not cancelled exists, so none issues a read), and    *)
(* when the scan completes normally a poll loop is running again.          *)
(***************************************************************************)
C10_ScanPausesPoll ==
  /\ [](FullScanRunning => RunningCount("poll") = 0)
  /\ [][ /\ gpio_task.kind = "scan_gpio"
         /\ Live(gpio_task)
         /\ gpio_task'.pc = "done"
         /\ ~gpio_task'.cancelled
         => Running(sensor_poll_task') ]_vars

\* the scan has returned and restarted the poll loop it had paused
C10_Witness ==
  /\ FullScanCompleted
  /\ phase = "mounted"
  /\ Running(sensor_poll_task)
  /\ gpio_task.hits # {}

(***************************************************************************)
(* C11.  A single-pin scan does not pause the poll loop: a request for a   *)
(* single-pin scan and every step of a scan_pin task leave the poll task   *)
(* as it is, so a poll loop that is running stays running.                 *)
(***************************************************************************)
SinglePinStep ==
  \/ SinglePinRequest
  \/ /\ gpio_task.kind = "scan_pin"
     /\ Live(gpio_task)
     /\ gpio_task' # gpio_task
     /\ events' = events
  \/ \E o \in orphans : o.kind = "scan_pin" /\ o \notin orphans'

C11_SinglePinScanKeepsPoll ==
  [][ SinglePinStep => sensor_poll_task' = sensor_poll_task ]_vars

\* a single-pin scan has returned and the poll loop started on mount is still
\* running
C11_Witness ==
  /\ phase = "mounted"
  /\ gpio_task.kind = "scan_pin"
  /\ gpio_task.pc = "done"
  /\ ~gpio_task.cancelled
  /\ Running(sensor_poll_task)
  /\ orphans = {}

(***************************************************************************)
(* C12.  A single-pin scan of pin P requested while a full-range scan is   *)
(* running cancels and supersedes it: the request replaces gpio_task by a  *)
(* scan_pin task for P and leaves the full-range task cancelled; a         *)
(* superseded full-range task is always a cancelled one and the one step   *)
(* it still takes (it ends on CancelledError) writes nothing to the table. *)
(***************************************************************************)
Superseded == { o \in orphans : o.kind = "scan_gpio" }

C12_SinglePinSupersedesFullScan ==
  /\ [](\A o \in Superseded : o.cancelled)
  /\ [][ /\ ( SinglePinRequest /\ gpio_task.kind = "scan_gpio"
                               /\ Live(gpio_task) )
            => /\ Cancel(gpio_task) \in orphans'
               /\ gpio_task' = Task("scan_pin", RowBcm(last_row_key))
         /\ ( \E o \in Superseded : o \notin orphans' )
            => table' = table ]_vars

\* a full-range scan was superseded in the middle of a detect call on the pin
\* the single-pin scan now works on
C12_Witness ==
  \E o \in Superseded :
    /\ o.pc = "detect"
    /\ gpio_task.kind = "scan_pin"
    /\ Live(gpio_task)
    /\ gpio_task.pin = o.pin

(***************************************************************************)
(* C13.  Every task that ends - by completion, plugin exception, detect    *)
(* timeout or cancellation - holds no exclusion when it exits: gpio_sem is *)
(* never left held by a finished or cancelled task, so it has at most one  *)
(* holder and is always eventually released.                               *)
(* The last part fails: a read that never returns keeps its task, which is *)
(* neither finished nor cancelled, inside "async with ctx.gpio_sem".  What *)
(* holds: the semaphore is taken exactly when one live task is inside an   *)
(* "async with" on it, and free otherwise.                                 *)
(***************************************************************************)
Holds(t) == Live(t) /\ (t.held \/ t.plock)

Holders ==
  Cardinality({ i \in 1 .. Len(Attached) : Holds(Attached[i]) })
  + Cardinality({ o \in orphans : Holds(o) })

BetweenPasses(t) == t.pc \in { "start", "sleep" }

C14_PollCancelledOnlyBetweenPasses ==
  [][ /\ ( /\ sensor_poll_task.kind = "poll"
           /\ Live(sensor_poll_task)
           /\ ~Live(sensor_poll_task')
           /\ sensor_poll_task'.cancelled )
         => BetweenPasses(sensor_poll_task)
      /\ \A o \in orphans :
           (o.kind = "poll" /\ o \notin orphans') => BetweenPasses(o) ]_vars

(***************************************************************************)
(* C15.  In a poll pass, a read that fails for one assignment neither      *)
(* halts the loop nor affects the others: the loop is still running after  *)
(* the failed read, and when the pass is over every assignment of the      *)
(* snapshot that names a plugin or the bus device has been read or         *)
(* refreshed.                                                              *)
(***************************************************************************)
Readable(item) == PluginIndex(item[2]) # 0 \/ item[2] = "I2C"

C15_FailedReadDoesNotStopPass ==
  /\ []( sensor_poll_task.pc = "sleep"
         => \A item \in sensor_poll_task.unread : ~Readable(item) )
  /\ [][ PollReadReturn(FALSE) => Running(sensor_poll_task') ]_vars

\* the read of the first assignment (BMP280) returned nothing, its row still
\* shows the manual entry, and the pass is in the read of the second one
C15_Witness ==
  /\ sensor_poll_task.pc = "read"
  /\ sensor_poll_task.idx = 2
  /\ sensor_poll_task.items[1][2] = "BMP280"
  /\ table[get_display_pin(sensor_poll_task.items[1][1])].info = "manual"

(***************************************************************************)
(* C16.  Each poll pass re-reads every entry of the store: for every       *)
(* assignment present at the start of the pass, role entries               *)
(* "{name}:{role}" included, the plugin's read (or role read) is called.   *)
(* Refuted by the code: gpio_plugins.get("TM1637:CLK") is None and the     *)
(* value is not "I2C", so the entry is passed over; read_with_roles is     *)
(* never called.                                                           *)
(***************************************************************************)
C16_PassReadsEveryEntry ==
  sensor_poll_task.pc = "sleep" => sensor_poll_task.unread = {}

(***************************************************************************)
(* C17.  A plugin read that never returns (issued by the poll loop or by   *)
(* a details call) blocks only the task that issued it: a full-range scan  *)
(* started or running meanwhile still reaches its end.                     *)
(* Refuted by the code: the details call holds gpio_sem around the hung    *)
(* read and is never cancelled, and scan_gpio waits for the semaphore at   *)
(* line 433, outside the wait_for of line 434.                             *)
(***************************************************************************)
ReadPending ==
  \/ details_task.pc = "read"
  \/ sensor_poll_task.pc = "read"
  \/ \E o \in orphans : o.kind = "poll" /\ o.pc = "read"

C17_HungReadDoesNotStallScan ==
  (ReadPending /\ FullScanLive) ~> ~FullScanLive

(***************************************************************************)
(* The plugin files load_gpio_plugins discovers, in directory scan order:  *)
(* the modules of every existing candidate directory, those skipped by     *)
(* name at line 69 left out.                                               *)
(***************************************************************************)
Loaded == phase # "init"

Candidate(file) == file.mod \notin { "__init__", "base" }

ScanOrder ==
  LET dirs == candidate_dirs(DiskOf(disk))
      Mods(k) == IF k <= Len(dirs) /\ dirs[k].exists THEN dirs[k].mods ELSE << >>
  IN SelectSeq(Mods(1) \o Mods(2) \o Mods(3), Candidate)

\* the file's get_plugin is callable and returns an instance called name
Defines(file, name) ==
  /\ file.loads
  /\ file.factory = "callable"
  /\ file.name = name

DefinedNames == { ScanOrder[i].name : i \in DOMAIN ScanOrder } \ { "" }

SourcesOf(name) == { i \in DOMAIN ScanOrder : Defines(ScanOrder[i], name) }

LastOf(S) == CHOOSE i \in S : \A j \in S : j <= i

\* C18: when two plugin sources each define a driver with the same name, the
\* registry has exactly one entry for that name, and it is the driver of the
\* source discovered last in directory scan order.
C18_LastDiscoveredWins ==
  Loaded =>
    \A name \in DefinedNames :
      Cardinality(SourcesOf(name)) >= 2 =>
        /\ Cardinality({ i \in 1 .. Len(registry) : registry[i][1] = name }) = 1
        /\ Get(registry, name) = Instance(ScanOrder[LastOf(SourcesOf(name))])

\* C19: when the override directory and a built-in directory both provide a
\* plugin of the same name, the registry holds the override directory's driver.
C19_OverrideTakesPrecedence ==
  Loaded =>
    \A name \in DefinedNames :
      ( /\ \E i \in SourcesOf(name) : ScanOrder[i].dir = "override"
        /\ \E i \in SourcesOf(name) : ScanOrder[i].dir = "plugins" )
      => /\ Has(registry, name)
         /\ \E i \in SourcesOf(name) :
              /\ ScanOrder[i].dir = "override"
              /\ Get(registry, name) = Instance(ScanOrder[i])

\* C20: a candidate module is registered if and only if it exposes a callable
\* get_plugin whose instance has a non-empty name, and nothing but a candidate
\* module adds an entry.
C20_RegisteredIffFactoryAndName ==
  Loaded =>
    /\ \A i \in DOMAIN ScanOrder :
         Instance(ScanOrder[i]) \in registered
           <=> ( /\ ScanOrder[i].loads
                 /\ ScanOrder[i].factory = "callable"
                 /\ ScanOrder[i].name # "" )
    /\ registered \subseteq { Instance(ScanOrder[i]) : i \in DOMAIN ScanOrder }
    /\ \A e \in Range(registry) : e[2] \in registered

(***************************************************************************)
(* Modules that fail: the import and the fallback both fail (lines 72-79), *)
(* or get_plugin() raises (lines 83-84, 91-92).                            *)
(***************************************************************************)
Fails(file) == ~file.loads \/ file.factory = "raises"

Sound(file) == ~Fails(file)

\* the directory as it would be had the failing modules never been there
WithoutFailing(dir) == [ dir EXCEPT !.mods = SelectSeq(@, Sound) ]

DiskWithoutFailing ==
  [ override |-> WithoutFailing(DiskOf(disk).override),
    plugins |-> WithoutFailing(DiskOf(disk).plugins),
    Plugins |-> WithoutFailing(DiskOf(disk).Plugins) ]

\* C21: a module that fails to load, or whose factory raises, is skipped
\* without effect on discovery: the registry is the one the remaining modules
\* alone would produce, every other valid module being registered as if the
\* failing module were not there.
C21_FailingModuleHasNoEffect ==
  Loaded =>
    /\ registry = load_gpio_plugins(DiskWithoutFailing).plugins
    /\ registered = load_gpio_plugins(DiskWithoutFailing).registered

(***************************************************************************)
(* The catalog of build_plugin_options.                                    *)
(***************************************************************************)
OptionsBuilt == phase = "ready" /\ opts # << >>

\* how many entries of the options have this value
Count(seq, value) == Cardinality({ i \in 1 .. Len(seq) : seq[i] = value })

Label(name, role) == name \o ":" \o role

\* the labels a plugin asks for: "name:role" per role, or its bare name
Expected(plugin) ==
  IF plugin.pin_roles # << >>
  THEN { Label(plugin.name, plugin.pin_roles[k]) :
           k \in 1 .. Len(plugin.pin_roles) }
  ELSE { plugin.name }

AllExpected(plugins) ==
  UNION { Expected(plugins[i]) : i \in 1 .. Len(plugins) } \cup { "I2C" }

\* C22 as stated, for every registry: one entry "name:role" per role and no
\* bare name for a plugin with roles, one entry "name" for a plugin without,
\* exactly one "I2C" entry, and nothing else.
C22_CatalogForEveryRegistry ==
  OptionsBuilt =>
    /\ \A i \in 1 .. Len(CatalogPlugins) :
         LET plugin == CatalogPlugins[i]
         IN /\ \A label \in Expected(plugin) : Count(opts, label) = 1
            /\ plugin.pin_roles # << >> => Count(opts, plugin.name) = 0
    /\ Count(opts, "I2C") = 1
    /\ \A k \in 1 .. Len(opts) : opts[k] \in AllExpected(CatalogPlugins)

\* no plugin lists a role twice, and no plugin bears a name that is the label
\* of another plugin's role or the bus-device value
DistinctLabels(plugins) ==
  /\ \A i \in 1 .. Len(plugins) :
       \A k, l \in 1 .. Len(plugins[i].pin_roles) :
         plugins[i].pin_roles[k] = plugins[i].pin_roles[l] => k = l
  /\ \A i, j \in 1 .. Len(plugins) :
       i # j => /\ Expected(plugins[i]) \cap Expected(plugins[j]) = {}
                /\ plugins[i].name \notin Expected(plugins[j])
  /\ \A i \in 1 .. Len(plugins) :
       /\ "I2C" \notin Expected(plugins[i])
       /\ plugins[i].name # "I2C"

\* C22 amended: the catalog is as stated for every registry whose labels are
\* distinct (no role listed twice by a plugin, no plugin named like another
\* plugin's "name:role" label or like the bus-device value).
C22_CatalogForDistinctLabels ==
  (OptionsBuilt /\ DistinctLabels(CatalogPlugins)) =>
    /\ \A i \in 1 .. Len(CatalogPlugins) :
         LET plugin == CatalogPlugins[i]
         IN /\ \A label \in Expected(plugin) : Count(opts, label) = 1
            /\ plugin.pin_roles # << >> => Count(opts, plugin.name) = 0
    /\ Count(opts, "I2C") = 1
    /\ Len(opts) = Cardinality(AllExpected(CatalogPlugins))
    /\ \A k \in 1 .. Len(opts) : opts[k] \in AllExpected(CatalogPlugins)

\* a multi-role plugin and a plugin without roles have been expanded
C22_Witness ==
  /\ OptionsBuilt
  /\ DistinctLabels(CatalogPlugins)
  /\ \E i, j \in 1 .. Len(CatalogPlugins) :
       /\ CatalogPlugins[i].name = "Foo"
       /\ CatalogPlugins[i].pin_roles = << "CLK", "DIO" >>
       /\ CatalogPlugins[j].pin_roles = << >>
  /\ Count(opts, "Foo:CLK") = 1
  /\ Count(opts, "Foo:DIO") = 1

(***************************************************************************)
(* Roles and auto-detection.                                               *)
(***************************************************************************)
\* the plugin whose detect a scan task is suspended in
Detecting(t) == Live(t) /\ t.pc = "detect" /\ t.idx # 0

\* the registry holds no plugin that has pin roles and is auto-detectable
NoAutoDetectableRoles ==
  \A i \in 1 .. Len(gpio_plugins) :
    gpio_plugins[i].pin_roles # << >> => ~gpio_plugins[i].auto_detectable

\* C23: no registered plugin that declares pin roles is auto-detectable, so a
\* full-range scan is never inside the detect of a plugin that has roles.
C23_RolePluginsNotAutoDetectable ==
  (gpio_task.kind = "scan_gpio" /\ Detecting(gpio_task))
    => /\ NoAutoDetectableRoles
       /\ gpio_plugins[gpio_task.idx].pin_roles = << >>

(***************************************************************************)
(* The pin map.                                                            *)
(***************************************************************************)
TableBuilt == phase # "init"

\* no two keys of the map have the same value
Injective(map) ==
  \A k1, k2 \in DOMAIN map : map[k1] = map[k2] => k1 = k2

\* no two rows show the same logical pin
RowsInjective(rows) ==
  \A r1, r2 \in DOMAIN rows :
    (rows[r1] # -1 /\ rows[r1] = rows[r2]) => r1 = r2

\* the map and the rows are partial bijections, inverse to each other
PartialBijection ==
  /\ Injective(bcm_to_phys)
  /\ TableBuilt =>
       /\ RowsInjective(row_bcm)
       /\ pins # << >> =>
            /\ \A bcm \in DOMAIN bcm_to_phys : DictGet(row_bcm, bcm_to_phys[bcm], -1) = bcm
            /\ \A row \in DOMAIN row_bcm :
                 row_bcm[row] # -1 => DictGet(bcm_to_phys, row_bcm[row], 0) = row

\* C24 as stated: the static table and the map rebuilt by build_table_rows
\* from the parsed pin description are a partial bijection at all times.
C24_PinMapAlwaysBijective ==
  /\ Injective(PHYS_TO_BCM)
  /\ Injective(BCM_TO_PHYS)
  /\ PartialBijection

\* the description names no physical pin twice and no logical pin twice
WellFormed(entries) ==
  \A i, j \in 1 .. Len(entries) :
    i # j => /\ entries[i].phys # entries[j].phys
             /\ (entries[i].bcm # -1 => entries[i].bcm # entries[j].bcm)

\* C24 amended: the static table is a partial bijection, and so are the map
\* and the rows rebuilt by build_table_rows whenever the parsed description
\* names no physical pin and no logical pin twice.
C24_PinMapBijectiveIfWellFormed ==
  /\ Injective(PHYS_TO_BCM)
  /\ Injective(BCM_TO_PHYS)
  /\ WellFormed(pins) => PartialBijection

\* the map has been rebuilt from a description with two logical pins
C24_Witness ==
  /\ TableBuilt
  /\ WellFormed(pins)
  /\ Cardinality(DOMAIN bcm_to_phys) = 2
  /\ bcm_to_phys # BCM_TO_PHYS

(***************************************************************************)
(* Manual assignment.                                                      *)
(***************************************************************************)
\* the logical pin of the selected row, -1 when no row is selected or the
\* row has none
SelectedPin == RowBcm(last_row_key)

\* C25: selecting catalog value X while a row with logical pin P is selected
\* sets the store entry of P to X, whatever the store held for P and whether
\* or not a scan is running.
C25_ManualAssignmentAlwaysSets ==
  [][ \A value \in SelectValues :
        (OnSelectChanged(value) /\ SelectedPin # -1)
          => /\ Has(fixed_pin_sensors', SelectedPin)
             /\ Get(fixed_pin_sensors', SelectedPin) = value ]_vars

\* a manual assignment made while the full-range scan is running
C25_Witness ==
  /\ FullScanLive
  /\ SelectedPin # -1
  /\ Has(fixed_pin_sensors, SelectedPin)
  /\ table[last_row_key].info = "manual"

(***************************************************************************)
(* C26.  A fault raised by a plugin's detect (or by unpacking its result)  *)
(* during a full-range or single-pin scan is treated as "no result" for    *)
(* that attempt: the step that handles it writes no display result and no  *)
(* assignment, records no detection, and goes on with the plugins after    *)
(* the faulting one; the scan ends in that step only if the plugin loop    *)
(* (and, for the full-range scan, the pin loop) is exhausted.              *)
(***************************************************************************)
\* the markers the plugin loop writes once it is past plugin i
MarkersAfter(i) ==
  { "Scan " \o gpio_plugins[j].name : j \in i + 1 .. Len(gpio_plugins) }
    \cup { "-" }

C26_FaultIsNoResult ==
  [][ DetectRaises =>
        LET t == gpio_task
            row == get_display_pin(t.pin)
        IN /\ ~gpio_task'.cancelled
           /\ gpio_task'.hits = t.hits
           /\ fixed_pin_sensors' = fixed_pin_sensors
           /\ \A r \in DOMAIN table :
                 IF r = row
                 THEN /\ table'[r].info = ""
                      /\ table'[r].sensor \in MarkersAfter(t.idx)
                 ELSE table'[r] = table[r]
           /\ (Live(gpio_task') /\ gpio_task'.pin = t.pin)
                 => /\ gpio_task'.idx > t.idx
                    /\ gpio_plugins[gpio_task'.idx].auto_detectable
           /\ (Live(gpio_task') /\ gpio_task'.pin # t.pin)
                 => /\ t.kind = "scan_gpio"
                    /\ gpio_task'.pin > t.pin
                    /\ table'[row].sensor = "-"
           /\ ~Live(gpio_task')
                 => /\ table'[row].sensor = "-"
                    /\ \A q \in t.pin + 1 .. LastPin :
                         t.kind = "scan_gpio"
                           => q \in BUS_PINS \/ Has(fixed_pin_sensors, q) ]_vars

\* the DHT22 detect of a single-pin scan of BCM 4 raised, and the scan is in
\* the detect call of the next plugin, DS18B20
C26_Witness ==
  /\ fault = << "scan_pin", W1Pin, "DHT22" >>
  /\ gpio_task.kind = "scan_pin"
  /\ gpio_task.pc = "detect"
  /\ gpio_task.pin = W1Pin
  /\ gpio_plugins[gpio_task.idx].name = "DS18B20"
  /\ table[get_display_pin(W1Pin)].sensor = "Scan DS18B20"

(***************************************************************************)
(* C27.  If the host gives no pin description, the table still has the 40  *)
(* physical positions, each with no logical pin, and the application keeps *)
(* handling messages: a manual assignment or a single-pin scan request on  *)
(* any row is handled like any message and changes neither the store, nor  *)
(* the table, nor the scan task.                                           *)
(***************************************************************************)
Placeholders ==
  /\ DOMAIN row_bcm = 1 .. LastPhys
  /\ DOMAIN table = 1 .. LastPhys
  /\ \A row \in DOMAIN row_bcm : row_bcm[row] = -1

C27_PlaceholdersAreInert ==
  /\ [](Placeholders /\ fixed_pin_sensors = << >>)
  /\ [][ (PressScanSelected \/ \E value \in SelectValues : OnSelectChanged(value))
          => /\ events' = events + 1
             /\ UNCHANGED << phase, fixed_pin_sensors, table, last_row_key,
                             gpio_task, i2c_task, sensor_poll_task,
                             details_task, orphans, gpio_sem >> ]_vars

\* row 7, which shows BCM 4 on a described board, is selected in the
\* placeholder table after further messages were handled; the store is empty
\* and no single-pin scan exists
C27_Witness ==
  /\ Placeholders
  /\ phase = "mounted"
  /\ last_row_key = BCM_TO_PHYS[W1Pin]
  /\ events = MaxEvents
  /\ fixed_pin_sensors = << >>
  /\ gpio_task.kind # "scan_pin"
  /\ \A o \in orphans : o.kind # "scan_pin"

(***************************************************************************)
(* C28.  get_display_pin returns the mapped physical pin for every mapped  *)
(* logical pin and its argument for every unmapped one, whatever map       *)
(* build_table_rows has left in BCM_TO_PHYS.                               *)
(***************************************************************************)
Displayed == disp # << 0, 0 >>

C28_DisplayPinMappedOrInput ==
  Displayed =>
    /\ disp[1] \in DOMAIN bcm_to_phys => disp[2] = bcm_to_phys[disp[1]]
    /\ disp[1] \notin DOMAIN bcm_to_phys => disp[2] = disp[1]

\* on a described board that maps some pins and leaves BCM 4 unmapped, the
\* call for a mapped pin returned a physical pin other than its argument
C28_Witness ==
  /\ Displayed
  /\ pins # << >>
  /\ W1Pin \notin DOMAIN bcm_to_phys
  /\ disp[1] \in DOMAIN bcm_to_phys
  /\ disp[2] # disp[1]

(***************************************************************************)
(* C29.  For each scanned pin the full-range scan calls detect on the      *)
(* auto-detectable plugins in registration order, never on a plugin whose  *)
(* auto_detectable flag is false or absent, and after the first successful *)
(* detection issues no further detect call for that pin.                   *)
(***************************************************************************)
FullScan(t) == t.kind = "scan_gpio" /\ Live(t)

\* the registry index of the last plugin whose detect the scan has called
\* for its current pin
Tried(t) ==
  IF t.pc = "detect" THEN t.idx
  ELSE IF t.pc = "acquire" THEN t.idx - 1
  ELSE 0

\* detect of plugin j on pin returns (or raises) before it suspends
ReturnsAtOnce(j, pin) ==
  \E w1 \in BOOLEAN :
    PluginCall(gpio_plugins[j].name, "detect", pin, 0, w1).call = "none"

\* the scan task has moved on within the plugin loop of one pin
NextCall(t, u) ==
  /\ FullScan(t)
  /\ FullScan(u)
  /\ ~t.cancelled
  /\ u.pc \in { "acquire", "detect" }
  /\ << u.pc, u.idx >> # << t.pc, t.idx >>

C29_DetectInOrderUntilFirstHit ==
  /\ []( (FullScan(gpio_task) /\ gpio_task.pc \in { "acquire", "detect" })
          => gpio_plugins[gpio_task.idx].auto_detectable )
  /\ []( FullScan(gpio_task)
          => \A h \in gpio_task.hits : gpio_task.pin > h[1] )
  /\ [][ NextCall(gpio_task, gpio_task')
          => /\ gpio_task'.pin = gpio_task.pin
             /\ gpio_task'.idx > Tried(gpio_task)
             /\ \A j \in Tried(gpio_task) + 1 .. gpio_task'.idx - 1 :
                   gpio_plugins[j].auto_detectable
                     => ReturnsAtOnce(j, gpio_task.pin) ]_vars
  /\ [][ (ScanDetectReturn(TRUE) /\ FullScan(gpio_task))
          => /\ << gpio_task.pin, gpio_plugins[gpio_task.idx].name >>
                  \in gpio_task'.hits
             /\ gpio_task'.pc \notin { "acquire", "detect" } ]_vars

\* on BCM 4 the scan called detect of DHT22, then of DS18B20, which found the
\* sensor; the scan is on a later pin
C29_Witness ==
  /\ FullScan(gpio_task)
  /\ HAS_ADAFRUIT
  /\ gpio_task.hits = { << W1Pin, "DS18B20" >> }
  /\ gpio_task.pin > W1Pin
  /\ table[get_display_pin(W1Pin)].sensor = "DS18B20"

(***************************************************************************)
(* C30.  When the full-range scan has finished with a pin on which no      *)
(* plugin matched, the pin's row shows "-" with an empty Info cell: the    *)
(* "Scan X" and "Timeout X" markers do not stay on a pin the scan has      *)
(* moved past, and while the scan runs none is written to any row but the  *)
(* one of the pin it is working on.                                        *)
(***************************************************************************)
ScanMarkers ==
  { "Scan " \o gpio_plugins[j].name : j \in 1 .. Len(gpio_plugins) }
    \cup { "Timeout " \o gpio_plugins[j].name : j \in 1 .. Len(gpio_plugins) }

\* the scan task t, at work on a pin, leaves the pin in the step to u
LeavesPin(t, u) ==
  /\ FullScan(t)
  /\ ~t.cancelled
  /\ t.pc \in { "sleep", "acquire", "detect" }
  /\ u.kind = "scan_gpio"
  /\ ~u.cancelled
  /\ u.pc = "done" \/ u.pin # t.pin

C30_UnmatchedPinShowsDash ==
  /\ [][ LeavesPin(gpio_task, gpio_task')
          => \/ \E h \in gpio_task'.hits : h[1] = gpio_task.pin
             \/ table'[get_display_pin(gpio_task.pin)] =
                  [sensor |-> "-", info |-> ""] ]_vars
  /\ [][ (FullScanRunning /\ FullScanRunning')
          => \A row \in DOMAIN table :
               (table'[row] # table[row] /\ table'[row].sensor \in ScanMarkers)
                 => row = get_display_pin(gpio_task.pin) ]_vars

\* with Adafruit_DHT present every scanned pin got the markers "Scan DHT22"
\* and "Timeout DHT22"; the scan, without a detection, is past BCM 4, which
\* is not assigned and so was scanned, and its row shows "-"
C30_Witness ==
  /\ FullScanRunning
  /\ HAS_ADAFRUIT
  /\ gpio_task.hits = {}
  /\ gpio_task.pin > W1Pin
  /\ ~Has(fixed_pin_sensors, W1Pin)
  /\ table[get_display_pin(W1Pin)] = [sensor |-> "-", info |-> ""]

(***************************************************************************)
(* C31.  A full-range scan visits candidate logical pins in strictly       *)
(* increasing order over its fixed range (FirstPin .. LastPin here), so it *)
(* probes each pin at most once, and it passes through the inter-pin delay *)
(* before the first detect call of every pin it probes.                    *)
(***************************************************************************)
\* the scan task is in the plugin loop of its pin
Probing(t) == t.pc \in { "acquire", "detect" }

\* a step of one scan task that has not been asked to stop
ScanStep(t, u) ==
  /\ FullScan(t)
  /\ ~t.cancelled
  /\ FullScan(u)

C31_PinsInOrderAfterDelay ==
  /\ []( (FullScan(gpio_task) /\ gpio_task.pc # "start")
          => gpio_task.pin \in ScanRange )
  /\ [][ ScanStep(gpio_task, gpio_task')
          => /\ gpio_task'.pin >= gpio_task.pin
             /\ (gpio_task'.pc = "sleep" /\ gpio_task.pc # "sleep")
                   => gpio_task'.pin > gpio_task.pin
             /\ (Probing(gpio_task') /\ ~Probing(gpio_task))
                   => /\ gpio_task.pc = "sleep"
                      /\ gpio_task.pin = gpio_task'.pin ]_vars

\* the scan has probed BCM 4 without a detection and, after the delay, is in
\* the plugin loop of the last pin of the range
C31_Witness ==
  /\ FullScan(gpio_task)
  /\ Probing(gpio_task)
  /\ gpio_task.pin = LastPin
  /\ ~Has(fixed_pin_sensors, W1Pin)
  /\ table[get_display_pin(W1Pin)] = [sensor |-> "-", info |-> ""]

(***************************************************************************)
(* C32.  The scan state machine is kept per scan kind: a full-range start  *)
(* request issued while no full-range scan is running always starts a      *)
(* full-range scan, also when a single-pin scan is in progress.            *)
(* Refuted by the code: both scans share self.gpio_task, and lines 305-309 *)
(* only start scan_gpio when that attribute is None or done; with a live   *)
(* single-pin scan the button cancels it and starts nothing.               *)
(***************************************************************************)
\* no scan_gpio task exists that has not ended
NoFullScan ==
  /\ ~FullScan(gpio_task)
  /\ \A o \in orphans : ~FullScan(o)

C32_StartRequestStartsFullScan ==
  [][ (PressGpio /\ NoFullScan)
        => /\ gpio_task'.kind = "scan_gpio"
           /\ gpio_task'.pc = "start"
           /\ ~gpio_task'.cancelled ]_vars

(***************************************************************************)
(* C33.  No task ever tries to acquire gpio_sem while it already holds it: *)
(* a detect call that the full-range scan issues while holding gpio_sem    *)
(* never itself waits on gpio_sem.                                         *)
(* Refuted by the code: scan_gpio awaits detect inside "async with         *)
(* self.gpio_sem" (433-434) and DHT22Plugin.detect enters "async with      *)
(* ctx.gpio_sem" (dht22.py 22), the same asyncio.Semaphore(1); the call    *)
(* can only end by the timeout of wait_for.                                *)
(***************************************************************************)
\* the task waits for the semaphore it holds itself
WaitsOnOwnSemaphore(t) == Live(t) /\ t.held /\ t.call = "semwait"

C33_NoTaskWaitsOnOwnSemaphore ==
  /\ \A i \in 1 .. Len(Attached) : ~WaitsOnOwnSemaphore(Attached[i])
  /\ \A o \in orphans : ~WaitsOnOwnSemaphore(o)

(***************************************************************************)
(* C34.  When a detect or read call is ended by timeout or cancellation,   *)
(* the hardware operation it handed to a worker thread is no longer        *)
(* running once the semaphore it was issued under is released.             *)
(* Refuted by the code: asyncio.to_thread cannot stop its thread.  The     *)
(* DHT22 read is only ever started inside "async with ctx.gpio_sem"        *)
(* (dht22.py 22-23, 37-38); when wait_for times out or the task is         *)
(* cancelled the "async with" is left and the semaphore released while     *)
(* read_retry is still running in the thread.                              *)
(***************************************************************************)
\* the devices every access to which is made inside "async with gpio_sem"
UnderSemaphore == { "dht" }

C34_NoThreadOutlivesExclusion == lost_threads \cap UnderSemaphore = {}

(***************************************************************************)
(* C35.  Every display write made on behalf of logical pin P (scan marker, *)
(* scan result, poll result, bus-device status, I2C probe result) targets  *)
(* the row of physical pin get_display_pin(P).                             *)
(* Refuted by the code: for an entry whose value is "I2C" the poll loop    *)
(* calls update_sensor(pin, ...) with the logical pin itself (line 382),   *)
(* and scan_i2c writes its finding to row 2 (line 458), which is the row   *)
(* of no bus pin.                                                          *)
(***************************************************************************)
\* the rows whose Sensor or Info cell the step changes
Written == { row \in DOMAIN table : table'[row] # table[row] }

\* the rows of the physical pins of a set of logical pins
RowsOfPins(P) == { get_display_pin(p) : p \in P }

C35_WritesGoToPhysicalRow ==
  [][ /\ (GpioWake \/ GpioAcquire \/ PinStart \/ ScanTimeout
            \/ \E ok \in BOOLEAN : ScanDetectReturn(ok))
          => Written \subseteq RowsOfPins({ gpio_task.pin })
      /\ (PollPass \/ \E ok \in BOOLEAN : PollReadReturn(ok))
          => Written \subseteq RowsOfPins(Keys(fixed_pin_sensors))
      /\ (\E found \in BOOLEAN : I2cProbeReturn(found))
          => Written \subseteq RowsOfPins(BUS_PINS) ]_vars

(***************************************************************************)
(* C36.  No scan ever writes to the display row of a pin that has an entry *)
(* in fixed_pin_sensors at the moment of the write.                        *)
(* Refuted by the code: scan_pin (355-366) never looks at the store, and   *)
(* scan_gpio tests it only once per pin (line 427), before the delay;      *)
(* both go on writing markers and results to the row of a pin assigned     *)
(* before, or during, their work on it.                                    *)
(***************************************************************************)
\* a step of scan_gpio or scan_pin that may write to the table
ScanWrites ==
  \/ GpioWake
  \/ GpioAcquire
  \/ PinStart
  \/ ScanTimeout
  \/ \E ok \in BOOLEAN : ScanDetectReturn(ok)

C36_ScansSpareAssignedRows ==
  [][ ScanWrites
        => Written \cap RowsOfPins(Keys(fixed_pin_sensors)) = {} ]_vars

(***************************************************************************)
(* C37.  At most one poll-loop task exists at any time.  The code keeps    *)
(* this for poll tasks that were not asked to stop: on_mount (139-140) and *)
(* scan_gpio (443) create a task only when the handle is None or done, and *)
(* scan_gpio (424) cancels the task before it drops the handle.  It does   *)
(* not keep it for tasks that have not ended: cancel() only requests the   *)
(* end, and a scan that finds no candidate pin reaches line 443 without    *)
(* suspending, so the new poll task is created while the cancelled one has *)
(* not yet run to its end.                                                 *)
(***************************************************************************)
PollTasks == { t \in Range(Attached) \cup orphans : t.kind = "poll" }

NoCandidatePin == (ScanRange \ BUS_PINS) \subseteq Keys(fixed_pin_sensors)

\* C37 as stated: at most one poll task is live (created, not ended)
C37_AtMostOneLivePollTask ==
  Cardinality({ t \in PollTasks : Live(t) }) <= 1

\* C37: at most one poll task that was not cancelled is live
C37_AtMostOneRunningPollTask ==
  Cardinality({ t \in PollTasks : Running(t) }) <= 1

C37_Witness ==
  /\ NoCandidatePin
  /\ FullScanCompleted
  /\ Running(sensor_poll_task)
  /\ \E o \in orphans : o.kind = "poll" /\ Live(o) /\ o.cancelled

(***************************************************************************)
(* C38.  No plugin call (detect or read) is ever in progress on a reserved *)
(* bus pin: no scan, poll or details task awaits a plugin on a pin of      *)
(* BUS_PINS.                                                               *)
(* Refuted by the code: on_select_changed (403-416) stores the chosen      *)
(* sensor under the logical pin of the selected row without a test of      *)
(* BUS_PINS, and the poll loop (374-380) and _show_row_details call the    *)
(* plugin's read on whatever pin the store or the row names.               *)
(***************************************************************************)
PluginCalls ==
  { t \in Range(Attached) \cup orphans :
      /\ t.kind \in { "scan_gpio", "scan_pin", "poll", "details" }
      /\ Live(t)
      /\ t.call # "none" }

C38_NoPluginCallOnBusPins ==
  \A t \in PluginCalls : t.pin \notin BUS_PINS

(***************************************************************************)
(* C39.  After on_unmount no poll loop is running, and none is started     *)
(* afterwards: once the application is unmounted no poll task exists that  *)
(* was not cancelled.                                                      *)
(* Refuted by the code: on_unmount (142-144) cancels the poll task only;   *)
(* during a full-range scan the handle is None (line 424), the scan task   *)
(* is left running, and when it completes line 443 creates a new poll      *)
(* task.                                                                   *)
(***************************************************************************)
C39_NoPollLoopAfterUnmount ==
  phase = "unmounted" => RunningCount("poll") = 0

====
